---- MODULE Spec2Model ----
(***************************************************************************)
(* Field resolution and the transform loop of the Chronicle and SolarWinds *)
(* plugins, mapping validation of the CloudTrail plugin and the CEF event  *)
(* generator of the ArcSight plugin.                                       *)
(*                                                                         *)
(* Python strings are sequences of one-character strings, so that split,   *)
(* strip, join, str() and int() are computed character by character.       *)
(* A Python value is a record [type, s, n]: s is the text of a str, n the  *)
(* number of an int or bool, the tenths of a float, the length of a list.  *)
(***************************************************************************)
EXTENDS Integers, Sequences, FiniteSets, TLC

VARIABLES
    scenario,      \* which entry point the run exercises
    pc,            \* "ready" before the call, "done" after it
    plugin,        \* the plugin whose method ran ("" before the call)
    rule,          \* extension_mapping / header_mapping: one MappingRule
    data,          \* the record: a dict from keys to values
    is_json_path,  \* the is_json_path argument of get_field_value_from_data
    res,           \* the outcome of get_field_value_from_data
    mappings,      \* header_mappings / extension_mappings: ordered (key, rule)
    data_type,     \* the data_type argument of get_headers / get_extensions
    out,           \* the outcome of get_headers / get_extensions
    doc,           \* mappings["taxonomy"][data_type] of a mapping document
    load,          \* the outcome of get_cloudtrail_mappings
    gen,           \* a CEFGenerator and the arguments of get_cef_event
    event,         \* the outcome of get_cef_event
    config,        \* the subtype mapping transform works with
    raw_data,      \* the batch given to transform
    pos,           \* the record the loop of transform is at
    transformed_data,  \* the list transform returns
    count,         \* the skipped-record counter of transform
    log            \* the messages given to the logger

vars == <<scenario, pc, plugin, rule, data, is_json_path, res, mappings,
          data_type, out, doc, load, gen, event, config, raw_data, pos,
          transformed_data, count, log>>

-----------------------------------------------------------------------------
(* Bounds of the model *)

MaxKeys == 2

MaxFields == 2

MaxDocRules == 2

MaxHeaders == 2

MaxExtensions == 2

MaxEpochLen == 15

MaxBatch == 2

MaxRules == 2

-----------------------------------------------------------------------------
(* Python values *)

StrV(t) == [type |-> "str", s |-> t, n |-> 0]

IntV(k) == [type |-> "int", s |-> <<>>, n |-> k]

FloatV(tenths) == [type |-> "float", s |-> <<>>, n |-> tenths]

NoneV == [type |-> "NoneType", s |-> <<>>, n |-> 0]

ListV(len) == [type |-> "list", s |-> <<>>, n |-> len]

\* bool(v)
Truthy(v) ==
    CASE v.type = "str" -> v.s # <<>>
      [] v.type = "NoneType" -> FALSE
      [] OTHER -> v.n # 0

\* isinstance(v, int): bool is a subclass of int, float is not
IsInstanceInt(v) == v.type \in {"int", "bool"}

-----------------------------------------------------------------------------
(* Python string operations *)

RECURSIVE LStrip(_, _)
LStrip(t, chars) ==
    IF t # <<>> /\ Head(t) \in chars THEN LStrip(Tail(t), chars) ELSE t

RECURSIVE RStrip(_, _)
RStrip(t, chars) ==
    IF t # <<>> /\ t[Len(t)] \in chars
    THEN RStrip(SubSeq(t, 1, Len(t) - 1), chars)
    ELSE t

\* t.strip(chars)
Strip(t, chars) == RStrip(LStrip(t, chars), chars)

\* t.split(sep) for a one-character sep; acc is the piece being read
RECURSIVE SplitFrom(_, _, _)
SplitFrom(t, sep, acc) ==
    IF t = <<>> THEN <<acc>>
    ELSE IF Head(t) = sep THEN <<acc>> \o SplitFrom(Tail(t), sep, <<>>)
    ELSE SplitFrom(Tail(t), sep, Append(acc, Head(t)))

Split(t, sep) == SplitFrom(t, sep, <<>>)

\* sep.join(parts) for a list of strings
RECURSIVE Join(_, _)
Join(parts, sep) ==
    IF parts = <<>> THEN <<>>
    ELSE IF Len(parts) = 1 THEN parts[1]
    ELSE parts[1] \o sep \o Join(Tail(parts), sep)

DigitChars == <<"0", "1", "2", "3", "4", "5", "6", "7", "8", "9">>

DigitSet == {DigitChars[i] : i \in 1..Len(DigitChars)}

DigitValue(c) == (CHOOSE i \in 1..Len(DigitChars) : DigitChars[i] = c) - 1

RECURSIVE NatStr(_)
NatStr(k) ==
    IF k < 10 THEN <<DigitChars[k + 1]>>
    ELSE NatStr(k \div 10) \o <<DigitChars[(k % 10) + 1]>>

IntStr(k) == IF k < 0 THEN <<"-">> \o NatStr(-k) ELSE NatStr(k)

\* str(v)
PyStr(v) ==
    CASE v.type = "str" -> v.s
      [] v.type = "int" -> IntStr(v.n)
      [] v.type = "float" ->
            (IF v.n < 0 THEN <<"-">> ELSE <<>>)
            \o NatStr((IF v.n < 0 THEN -v.n ELSE v.n) \div 10) \o <<".">>
            \o NatStr((IF v.n < 0 THEN -v.n ELSE v.n) % 10)
      [] v.type = "bool" ->
            IF v.n = 1 THEN <<"T", "r", "u", "e">>
            ELSE <<"F", "a", "l", "s", "e">>
      [] v.type = "NoneType" -> <<"N", "o", "n", "e">>
      [] OTHER -> <<"[", "]">>

RECURSIVE DigitsValue(_, _)
DigitsValue(t, acc) ==
    IF t = <<>> THEN acc
    ELSE DigitsValue(Tail(t), 10 * acc + DigitValue(Head(t)))

IsDigits(t) == t # <<>> /\ \A i \in 1..Len(t) : t[i] \in DigitSet

\* the text of a str that int() accepts: spaces, optional sign, digits
IntBody(t) == Strip(t, {" "})

IntUnsigned(t) ==
    IF IntBody(t) # <<>> /\ Head(IntBody(t)) \in {"+", "-"}
    THEN Tail(IntBody(t))
    ELSE IntBody(t)

\* int(v) raises (ValueError or TypeError) exactly when this is FALSE
IntConvertible(v) ==
    CASE v.type = "str" -> IsDigits(IntUnsigned(v.s))
      [] v.type \in {"int", "bool", "float"} -> TRUE
      [] OTHER -> FALSE

\* int(v) where it does not raise; a float is truncated toward zero
PyInt(v) ==
    CASE v.type = "str" ->
            IF Head(IntBody(v.s)) = "-"
            THEN IntV(-DigitsValue(IntUnsigned(v.s), 0))
            ELSE IntV(DigitsValue(IntUnsigned(v.s), 0))
      [] v.type = "float" ->
            IF v.n < 0 THEN IntV(-((-v.n) \div 10)) ELSE IntV(v.n \div 10)
      [] OTHER -> IntV(v.n)

-----------------------------------------------------------------------------
(* Mapping rules, records and outcomes *)

\* A rule is a dict with the optional keys mapping_field, default_value,
\* transformation and is_json_path; has_x says whether key x is in the dict.
MappingRule(hm, mf, hd, dv, ht, tr, hj, jv) ==
    [has_mapping_field |-> hm, mapping_field |-> mf,
     has_default_value |-> hd, default_value |-> dv,
     has_transformation |-> ht, transformation |-> tr,
     has_is_json_path |-> hj, is_json_path |-> jv]

NoRule == MappingRule(FALSE, <<>>, FALSE, <<>>, FALSE, "", FALSE, FALSE)

\* return v
Return(v) == [kind |-> "return", value |-> v]

\* raise exc(msg)
Raise(exc, msg) == [kind |-> exc, value |-> StrV(msg)]

NoResult == [kind |-> "none", value |-> NoneV]

EmptyRecord == [k \in {} |-> NoneV]

\* no CEFGenerator call in this run
NoCall == [kind |-> "none"]

\* no subtype mapping in this run
NoConfig == [header |-> <<>>, extension |-> <<>>]

\* the keys a record may hold, in the order the record was built
KeyOrder ==
    << <<"a">>, <<"b">>, <<" ", "a">>, <<"a", "-", "b">>, <<"N", "U", "L", "L">> >>

Keys == {KeyOrder[i] : i \in 1..Len(KeyOrder)}

\* the values of the record in key order
RECURSIVE ValuesFrom(_, _)
ValuesFrom(d, i) ==
    IF i > Len(KeyOrder) THEN <<>>
    ELSE IF KeyOrder[i] \in DOMAIN d
         THEN <<d[KeyOrder[i]]>> \o ValuesFrom(d, i + 1)
         ELSE ValuesFrom(d, i + 1)

PathRoot == <<"$", ".">>

PathWildcard == <<"$", ".", "*">>

IsChildPath(expr) ==
    /\ Len(expr) > 2
    /\ SubSeq(expr, 1, 2) = PathRoot
    /\ expr # PathWildcard

\* jsonpath(d, expr) of the jsonpath library for the expressions "$.<key>"
\* and "$.*": the list of matches, or a falsy value (found = FALSE) when
\* nothing matches or the record is empty.
jsonpath(d, expr) ==
    IF IsChildPath(expr)
    THEN IF SubSeq(expr, 3, Len(expr)) \in DOMAIN d
         THEN [found |-> TRUE, vals |-> <<d[SubSeq(expr, 3, Len(expr))]>>]
         ELSE [found |-> FALSE, vals |-> <<>>]
    ELSE IF expr = PathWildcard /\ DOMAIN d # {}
         THEN [found |-> TRUE, vals |-> ValuesFrom(d, 1)]
         ELSE [found |-> FALSE, vals |-> <<>>]

get_mapping_value_from_json_path(d, json_path) == jsonpath(d, json_path)

\* [str(val) for val in value]
StrAll(vals) == [i \in 1..Len(vals) |-> PyStr(vals[i])]

NullStr == <<"n", "u", "l", "l">>

NULLStr == <<"N", "U", "L", "L">>

-----------------------------------------------------------------------------
(* ChroniclePlugin *)

Chronicle_get_mapping_value_from_field(d, field) ==
    IF Truthy(d[field]) \/ IsInstanceInt(d[field])
    THEN d[field]
    ELSE StrV(NullStr)

\* " - ".join(out_list): raises TypeError when an item is not a str
ChronicleJoin(out_list) ==
    IF \A i \in 1..Len(out_list) : out_list[i].type = "str"
    THEN Return(StrV(Join([i \in 1..Len(out_list) |-> out_list[i].s],
                          <<" ", "-", " ">>)))
    ELSE Raise("TypeError", <<>>)

\* a component used as written, not stripped
ChronicleComponent_NoStrip(field) == field

ChronicleComponent(field) == Strip(Strip(field, {" "}), {"[", "]"})

\* the composite loop skipping an absent component: a partial join
RECURSIVE ChronicleComposite_PartialJoin(_, _, _, _, _)
ChronicleComposite_PartialJoin(m, d, field_list, i, out_list) ==
    IF i > Len(field_list) THEN ChronicleJoin(out_list)
    ELSE IF ChronicleComponent(field_list[i]) = NULLStr
    THEN ChronicleComposite_PartialJoin(m, d, field_list, i + 1,
                                        Append(out_list, StrV(NULLStr)))
    ELSE IF ChronicleComponent(field_list[i]) \in DOMAIN d
    THEN ChronicleComposite_PartialJoin(m, d, field_list, i + 1,
            Append(out_list,
                   Chronicle_get_mapping_value_from_field(
                       d, ChronicleComponent(field_list[i]))))
    ELSE ChronicleComposite_PartialJoin(m, d, field_list, i + 1, out_list)

\* the loop over field_list from position i on, with out_list so far
RECURSIVE ChronicleComposite(_, _, _, _, _)
ChronicleComposite(m, d, field_list, i, out_list) ==
    IF i > Len(field_list) THEN ChronicleJoin(out_list)
    ELSE IF ChronicleComponent(field_list[i]) = NULLStr
    THEN ChronicleComposite(m, d, field_list, i + 1,
                            Append(out_list, StrV(NULLStr)))
    ELSE IF ChronicleComponent(field_list[i]) \in DOMAIN d
    THEN ChronicleComposite(m, d, field_list, i + 1,
            Append(out_list,
                   Chronicle_get_mapping_value_from_field(
                       d, ChronicleComponent(field_list[i]))))
    ELSE IF m.has_default_value THEN Return(StrV(m.default_value))
    ELSE Raise("FieldNotFoundError", m.mapping_field)

\* ChronicleDirect with the default_value branch of a single key left out
ChronicleDirect_NoDefaultBranch(m, d) ==
    IF Len(Split(m.mapping_field, "-")) = 1
    THEN IF m.mapping_field \in DOMAIN d
         THEN Return(Chronicle_get_mapping_value_from_field(d, m.mapping_field))
         ELSE Raise("FieldNotFoundError", m.mapping_field)
    ELSE ChronicleComposite(m, d, Split(m.mapping_field, "-"), 1, <<>>)

ChronicleDirect(m, d) ==
    IF Len(Split(m.mapping_field, "-")) = 1
    THEN IF m.mapping_field \in DOMAIN d
         THEN Return(Chronicle_get_mapping_value_from_field(d, m.mapping_field))
         ELSE IF m.has_default_value THEN Return(StrV(m.default_value))
         ELSE Raise("FieldNotFoundError", m.mapping_field)
    ELSE ChronicleComposite(m, d, Split(m.mapping_field, "-"), 1, <<>>)

\* the path branch keeping only the first match
ChroniclePath_FirstMatch(m, d) ==
    IF get_mapping_value_from_json_path(d, m.mapping_field).found
    THEN Return(StrV(PyStr(
            get_mapping_value_from_json_path(d, m.mapping_field).vals[1])))
    ELSE Raise("FieldNotFoundError", m.mapping_field)

ChroniclePath(m, d) ==
    IF get_mapping_value_from_json_path(d, m.mapping_field).found
    THEN Return(StrV(Join(
            StrAll(get_mapping_value_from_json_path(d, m.mapping_field).vals),
            <<",">>)))
    ELSE Raise("FieldNotFoundError", m.mapping_field)

\* the resolver looking the whole mapping_field up before splitting it
Chronicle_get_field_value_WholeKeyFirst(m, d, json_path) ==
    IF m.has_mapping_field /\ m.mapping_field # <<>>
    THEN IF json_path THEN ChroniclePath(m, d)
         ELSE IF m.mapping_field \in DOMAIN d
         THEN Return(Chronicle_get_mapping_value_from_field(d, m.mapping_field))
         ELSE ChronicleDirect(m, d)
    ELSE IF m.has_default_value THEN Return(StrV(m.default_value))
    ELSE Raise("KeyError", <<>>)

Chronicle_get_field_value_from_data(m, d, json_path) ==
    IF m.has_mapping_field /\ m.mapping_field # <<>>
    THEN IF json_path THEN ChroniclePath(m, d) ELSE ChronicleDirect(m, d)
    ELSE IF m.has_default_value THEN Return(StrV(m.default_value))
    ELSE Raise("KeyError", <<>>)

-----------------------------------------------------------------------------
(* SolarWindsPlugin: every return value is the tuple (value, mapped_field) *)

\* the lookup that flags an empty value as mapped too
SolarWinds_get_mapping_value_EmptyMapped(d, field) ==
    IF Truthy(d[field]) \/ IsInstanceInt(d[field])
    THEN <<d[field], TRUE>>
    ELSE <<StrV(NullStr), TRUE>>

SolarWinds_get_mapping_value_from_field(d, field) ==
    IF Truthy(d[field]) \/ IsInstanceInt(d[field])
    THEN <<d[field], TRUE>>
    ELSE <<StrV(NullStr), FALSE>>

\* SolarWindsDirect with the default_value tested before the record
SolarWindsDirect_DefaultFirst(m, d) ==
    IF m.has_default_value THEN Return(<<StrV(m.default_value), FALSE>>)
    ELSE IF m.mapping_field \in DOMAIN d
    THEN Return(SolarWinds_get_mapping_value_from_field(d, m.mapping_field))
    ELSE Raise("FieldNotFoundError", m.mapping_field)

SolarWindsDirect(m, d) ==
    IF m.mapping_field \in DOMAIN d
    THEN IF /\ m.has_transformation
            /\ m.transformation = "Time Stamp"
            /\ Truthy(d[m.mapping_field])
            /\ IntConvertible(d[m.mapping_field])
         THEN Return(<<PyInt(d[m.mapping_field]), TRUE>>)
         ELSE Return(SolarWinds_get_mapping_value_from_field(d, m.mapping_field))
    ELSE IF m.has_default_value THEN Return(<<StrV(m.default_value), FALSE>>)
    ELSE Raise("FieldNotFoundError", m.mapping_field)

\* the path mode returning the first match alone
SolarWindsPath_FirstMatch(m, d) ==
    IF get_mapping_value_from_json_path(d, m.mapping_field).found
    THEN Return(<<StrV(PyStr(
            get_mapping_value_from_json_path(d, m.mapping_field).vals[1])),
            TRUE>>)
    ELSE Raise("FieldNotFoundError", m.mapping_field)

SolarWindsPath(m, d) ==
    IF get_mapping_value_from_json_path(d, m.mapping_field).found
    THEN Return(<<StrV(Join(
            StrAll(get_mapping_value_from_json_path(d, m.mapping_field).vals),
            <<",">>)), TRUE>>)
    ELSE Raise("FieldNotFoundError", m.mapping_field)

\* the resolver testing only that the mapping_field key is in the rule
SolarWinds_get_field_value_KeyOnly(m, d, json_path) ==
    IF m.has_mapping_field
    THEN IF json_path THEN SolarWindsPath(m, d) ELSE SolarWindsDirect(m, d)
    ELSE IF m.has_default_value THEN Return(<<StrV(m.default_value), FALSE>>)
    ELSE Raise("KeyError", <<>>)

SolarWinds_get_field_value_from_data(m, d, json_path) ==
    IF m.has_mapping_field /\ m.mapping_field # <<>>
    THEN IF json_path THEN SolarWindsPath(m, d) ELSE SolarWindsDirect(m, d)
    ELSE IF m.has_default_value THEN Return(<<StrV(m.default_value), FALSE>>)
    ELSE Raise("KeyError", <<>>)

-----------------------------------------------------------------------------
(* get_headers and get_extensions *)

UpperChars ==
    <<"A", "B", "C", "D", "E", "F", "G", "H", "I", "J", "K", "L", "M",
      "N", "O", "P", "Q", "R", "S", "T", "U", "V", "W", "X", "Y", "Z">>

LowerChars ==
    <<"a", "b", "c", "d", "e", "f", "g", "h", "i", "j", "k", "l", "m",
      "n", "o", "p", "q", "r", "s", "t", "u", "v", "w", "x", "y", "z">>

LowerChar(c) ==
    IF \E i \in 1..Len(UpperChars) : UpperChars[i] = c
    THEN LowerChars[CHOOSE i \in 1..Len(UpperChars) : UpperChars[i] = c]
    ELSE c

\* t.lower()
Lower(t) == [i \in 1..Len(t) |-> LowerChar(t[i])]

TenantVariable ==
    <<"$", "t", "e", "n", "a", "n", "t", "_", "n", "a", "m", "e">>

\* tenant.name of the tenant the plugin is configured for
TenantName == StrV(<<"a", "c", "m", "e">>)

\* strftime of the record's timestamp, or of the clock when it has none
EventTimestamp == StrV(<<"n", "o", "w">>)

\* "Handle variable mappings": a str equal to a mapping variable, whatever
\* its case, is replaced by the variable's value
SubstituteVariables(v, has_variables) ==
    IF has_variables /\ v.type = "str" /\ Lower(v.s) = TenantVariable
    THEN TenantName
    ELSE v

\* the dict built so far, the flag and the missing_fields list
Fields(kind, fields, mapped, missing) ==
    [kind |-> kind, fields |-> fields, mapped |-> mapped, missing |-> missing]

\* the loop of ChroniclePlugin.get_headers from entry i on
RECURSIVE ChronicleHeaderLoop(_, _, _, _)
ChronicleHeaderLoop(header_mappings, d, i, acc) ==
    IF i > Len(header_mappings) THEN acc
    ELSE LET r == Chronicle_get_field_value_from_data(
                      header_mappings[i].rule, d, FALSE)
         IN  IF r.kind = "return"
             THEN ChronicleHeaderLoop(header_mappings, d, i + 1,
                      Fields("return",
                             Append(acc.fields,
                                    [key |-> header_mappings[i].key,
                                     value |-> SubstituteVariables(r.value, TRUE)]),
                             FALSE, acc.missing))
             ELSE IF r.kind = "FieldNotFoundError"
             THEN ChronicleHeaderLoop(header_mappings, d, i + 1,
                      Fields("return", acc.fields, FALSE,
                             Append(acc.missing, r.value.s)))
             ELSE Fields(r.kind, <<>>, FALSE, <<>>)

Chronicle_get_headers(header_mappings, d) ==
    ChronicleHeaderLoop(header_mappings, d, 1,
        Fields("return",
               <<[key |-> "metadata.event_timestamp", value |-> EventTimestamp]>>,
               FALSE, <<>>))

\* the extension loop without the except clause: FieldNotFoundError escapes
RECURSIVE ChronicleExtensionLoop_NoCatch(_, _, _, _)
ChronicleExtensionLoop_NoCatch(extension_mappings, d, i, acc) ==
    IF i > Len(extension_mappings) THEN acc
    ELSE LET r == Chronicle_get_field_value_from_data(
                      extension_mappings[i].rule, d,
                      extension_mappings[i].rule.has_is_json_path)
         IN  IF r.kind = "return"
             THEN ChronicleExtensionLoop_NoCatch(extension_mappings, d, i + 1,
                      Fields("return",
                             Append(acc.fields,
                                    [key |-> extension_mappings[i].key,
                                     value |-> r.value]),
                             FALSE, acc.missing))
             ELSE Fields(r.kind, <<>>, FALSE, <<>>)

\* the loop of ChroniclePlugin.get_extensions from entry i on
RECURSIVE ChronicleExtensionLoop(_, _, _, _)
ChronicleExtensionLoop(extension_mappings, d, i, acc) ==
    IF i > Len(extension_mappings) THEN acc
    ELSE LET r == Chronicle_get_field_value_from_data(
                      extension_mappings[i].rule, d,
                      extension_mappings[i].rule.has_is_json_path)
         IN  IF r.kind = "return"
             THEN ChronicleExtensionLoop(extension_mappings, d, i + 1,
                      Fields("return",
                             Append(acc.fields,
                                    [key |-> extension_mappings[i].key,
                                     value |-> r.value]),
                             FALSE, acc.missing))
             ELSE IF r.kind = "FieldNotFoundError"
             THEN ChronicleExtensionLoop(extension_mappings, d, i + 1,
                      Fields("return", acc.fields, FALSE,
                             Append(acc.missing, r.value.s)))
             ELSE Fields(r.kind, <<>>, FALSE, <<>>)

Chronicle_get_extensions(extension_mappings, d) ==
    ChronicleExtensionLoop(extension_mappings, d, 1,
                           Fields("return", <<>>, FALSE, <<>>))

\* the loop of SolarWindsPlugin.get_headers from entry i on
RECURSIVE SolarWindsHeaderLoop(_, _, _, _, _)
SolarWindsHeaderLoop(header_mappings, d, dt, i, acc) ==
    IF i > Len(header_mappings) THEN acc
    ELSE LET r == SolarWinds_get_field_value_from_data(
                      header_mappings[i].rule, d, FALSE)
         IN  IF r.kind = "return"
             THEN SolarWindsHeaderLoop(header_mappings, d, dt, i + 1,
                      Fields("return",
                             Append(acc.fields,
                                    [key |-> header_mappings[i].key,
                                     value |-> SubstituteVariables(
                                                   r.value[1], dt # "webtx")]),
                             acc.mapped \/ r.value[2], acc.missing))
             ELSE IF r.kind = "FieldNotFoundError"
             THEN SolarWindsHeaderLoop(header_mappings, d, dt, i + 1,
                      Fields("return", acc.fields, acc.mapped,
                             Append(acc.missing, r.value.s)))
             ELSE Fields(r.kind, <<>>, FALSE, <<>>)

SolarWinds_get_headers(header_mappings, d, dt) ==
    SolarWindsHeaderLoop(header_mappings, d, dt, 1,
                         Fields("return", <<>>, FALSE, <<>>))

\* the loop of SolarWindsPlugin.get_extensions from entry i on
RECURSIVE SolarWindsExtensionLoop(_, _, _, _)
SolarWindsExtensionLoop(extension_mappings, d, i, acc) ==
    IF i > Len(extension_mappings) THEN acc
    ELSE LET r == SolarWinds_get_field_value_from_data(
                      extension_mappings[i].rule, d,
                      extension_mappings[i].rule.has_is_json_path)
         IN  IF r.kind = "return"
             THEN SolarWindsExtensionLoop(extension_mappings, d, i + 1,
                      Fields("return",
                             Append(acc.fields,
                                    [key |-> extension_mappings[i].key,
                                     value |-> r.value[1]]),
                             acc.mapped \/ r.value[2], acc.missing))
             ELSE IF r.kind = "FieldNotFoundError"
             THEN SolarWindsExtensionLoop(extension_mappings, d, i + 1,
                      Fields("return", acc.fields, acc.mapped,
                             Append(acc.missing, r.value.s)))
             ELSE Fields(r.kind, <<>>, FALSE, <<>>)

SolarWinds_get_extensions(extension_mappings, d) ==
    SolarWindsExtensionLoop(extension_mappings, d, 1,
                            Fields("return", <<>>, FALSE, <<>>))

-----------------------------------------------------------------------------
(* cloudtrail_helper: validation of a mapping document *)

\* jsonschema "oneOf": exactly one of the sub-schemas accepts the instance
OneOf(accepted) == Cardinality({i \in 1..Len(accepted) : accepted[i]}) = 1

\* jsonschema "allOf"
AllOf(accepted) == \A i \in 1..Len(accepted) : accepted[i]

\* the number of properties of the rule object
PropertyCount(instance) ==
    Cardinality({p \in {"mapping_field", "default_value", "transformation",
                        "is_json_path"} :
                    \/ p = "mapping_field" /\ instance.has_mapping_field
                    \/ p = "default_value" /\ instance.has_default_value
                    \/ p = "transformation" /\ instance.has_transformation
                    \/ p = "is_json_path" /\ instance.has_is_json_path})

\* one_of_sub_schema: one of (one of (both), both)
OneOfSubSchema(instance) ==
    OneOf(<< OneOf(<<instance.has_mapping_field, instance.has_default_value>>),
             AllOf(<<instance.has_mapping_field, instance.has_default_value>>) >>)

\* TRUE when validate_header_extension_subdict returns, FALSE when it raises
validate_header_extension_subdict(instance) ==
    /\ ~(/\ instance.has_mapping_field
         /\ instance.has_default_value
         /\ instance.mapping_field = <<>> /\ instance.default_value = <<>>)
    /\ ~(/\ instance.has_mapping_field
         /\ ~instance.has_default_value
         /\ instance.mapping_field = <<>>)
    /\ ~(/\ instance.has_default_value
         /\ ~instance.has_mapping_field
         /\ instance.default_value = <<>>)

\* TRUE when validate_header returns, FALSE when it raises; instance is the
\* header object, an ordered dict of (key, rule)
validate_header(instance) ==
    /\ \A i \in 1..Len(instance) :
          /\ PropertyCount(instance[i].rule) <= 3
          /\ OneOfSubSchema(instance[i].rule)
    /\ \A i \in 1..Len(instance) :
          validate_header_extension_subdict(instance[i].rule)

\* TRUE when validate_extension returns: the extension object is a dict
validate_extension(instance) == TRUE

\* TRUE when validate_extension_field returns, FALSE when it raises
validate_extension_field(instance) ==
    /\ PropertyCount(instance) <= 4
    /\ OneOfSubSchema(instance)
    /\ validate_header_extension_subdict(instance)

\* the loop over the subtypes of the data type from subtype i on: only the
\* extension object of each subtype is validated
RECURSIVE CloudtrailSubtypeLoop(_, _)
CloudtrailSubtypeLoop(data_type_specific_mapping, i) ==
    IF i > Len(data_type_specific_mapping) THEN "return"
    ELSE IF ~validate_extension(data_type_specific_mapping[i].extension)
    THEN "MappingValidationError"
    ELSE IF \E k \in 1..Len(data_type_specific_mapping[i].extension) :
                ~validate_extension_field(
                    data_type_specific_mapping[i].extension[k].rule)
    THEN "MappingValidationError"
    ELSE CloudtrailSubtypeLoop(data_type_specific_mapping, i + 1)

get_cloudtrail_mappings(data_type_specific_mapping) ==
    CloudtrailSubtypeLoop(data_type_specific_mapping, 1)

-----------------------------------------------------------------------------
(* Inputs of the resolvers *)

Values ==
    {StrV(<<"x">>), StrV(<<"1", "2">>), StrV(<<>>), IntV(0), IntV(5),
     FloatV(0), FloatV(15), NoneV, ListV(0)}

\* the records with at most MaxKeys keys
Records ==
    UNION {[ks -> Values] : ks \in {t \in SUBSET Keys : Cardinality(t) <= MaxKeys}}

\* mapping_field texts resolved in direct/composite mode
DirectFields ==
    { <<>>,
      <<"a">>, <<" ", "a">>, <<"[", "a", "]">>, <<"N", "U", "L", "L">>,
      <<"a", "-", "b">>, <<"b", "-", "a">>,
      <<"a", " ", "-", " ", "b">>,
      <<"[", "a", "]", "-", "[", "b", "]">>,
      <<"[", "a", "]", " ", "-", " ", "N", "U", "L", "L">>,
      <<"[", " ", "a", " ", "]", "-", "b">>,
      <<"$", ".", "a">>, PathWildcard }

\* mapping_field texts evaluated as path expressions
PathFields == { <<>>, <<"$", ".", "a">>, PathWildcard }

DefaultValues == { <<>>, <<"d">> }

Transformations == { "Time Stamp" }

\* the rules handed to get_field_value_from_data with the given is_json_path
ResolveRules(json_path) ==
    { MappingRule(hm, mf, hd, dv, ht, tr, json_path, json_path) :
        hm \in BOOLEAN,
        mf \in (IF json_path THEN PathFields ELSE DirectFields),
        hd \in BOOLEAN, dv \in DefaultValues,
        ht \in BOOLEAN, tr \in Transformations \cup {""} }

\* a key that is not in the dict has no value
WellFormed(m) ==
    /\ ~m.has_mapping_field => m.mapping_field = <<>>
    /\ ~m.has_default_value => m.default_value = <<>>
    /\ m.has_transformation <=> m.transformation # ""

NoOut == Fields("none", <<>>, FALSE, <<>>)

-----------------------------------------------------------------------------
(* One call of get_field_value_from_data *)

InitResolve ==
    /\ scenario = "resolve"
    /\ pc = "ready"
    /\ plugin = ""
    /\ is_json_path \in BOOLEAN
    /\ rule \in {m \in ResolveRules(is_json_path) : WellFormed(m)}
    /\ data \in Records
    /\ res = NoResult
    /\ mappings = <<>>
    /\ data_type = ""
    /\ out = NoOut
    /\ doc = <<>>
    /\ load = "none"
    /\ gen = NoCall
    /\ event = NoResult
    /\ config = NoConfig
    /\ raw_data = <<>>
    /\ pos = 0
    /\ transformed_data = <<>>
    /\ count = 0
    /\ log = <<>>

ChronicleResolve ==
    /\ scenario = "resolve"
    /\ pc = "ready"
    /\ pc' = "done"
    /\ plugin' = "chronicle"
    /\ res' = Chronicle_get_field_value_from_data(rule, data, is_json_path)
    /\ UNCHANGED <<scenario, rule, data, is_json_path, mappings, data_type,
                   out, doc, load,
                   gen, event, config, raw_data, pos, transformed_data,
                   count, log>>

SolarWindsResolve ==
    /\ scenario = "resolve"
    /\ pc = "ready"
    /\ pc' = "done"
    /\ plugin' = "solarwinds"
    /\ res' = SolarWinds_get_field_value_from_data(rule, data, is_json_path)
    /\ UNCHANGED <<scenario, rule, data, is_json_path, mappings, data_type,
                   out, doc, load,
                   gen, event, config, raw_data, pos, transformed_data,
                   count, log>>

NextResolve == ChronicleResolve \/ SolarWindsResolve

SpecResolve == InitResolve /\ [][NextResolve]_vars

-----------------------------------------------------------------------------
(* Properties of get_field_value_from_data *)

Resolved == scenario = "resolve" /\ pc = "done"

MappingPresent == rule.has_mapping_field /\ rule.mapping_field # <<>>

\* the value part of what the resolver returned
ReturnedValue == IF plugin = "solarwinds" THEN res.value[1] ELSE res.value

\* the resolver returned v
Returns(v) == res.kind = "return" /\ ReturnedValue = v

IsComposite == Len(Split(rule.mapping_field, "-")) > 1

\* the mapping_field components, each stripped of spaces, then of brackets
Components ==
    [i \in 1..Len(Split(rule.mapping_field, "-")) |->
        Strip(Strip(Split(rule.mapping_field, "-")[i], {" "}), {"[", "]"})]

ComponentResolves(c) == c = NULLStr \/ c \in DOMAIN data

\* direct mode finds no value: the key of a single-key rule (for SolarWinds
\* the whole mapping_field) is not in the record, or some component of a
\* Chronicle composite neither is NULL nor is in the record
DirectAbsent ==
    IF plugin = "chronicle" /\ IsComposite
    THEN \E i \in 1..Len(Components) : ~ComponentResolves(Components[i])
    ELSE rule.mapping_field \notin DOMAIN data

PathAbsent == ~jsonpath(data, rule.mapping_field).found

Coerced(v) == IF Truthy(v) \/ IsInstanceInt(v) THEN v ELSE StrV(NullStr)

SingleKeyPresent ==
    /\ Resolved /\ ~is_json_path /\ MappingPresent
    /\ ~IsComposite
    /\ rule.mapping_field \in DOMAIN data

\* C2 as stated: a single-key direct rule whose key is in the record resolves
\* to the (null-coerced) record value, with or without a default_value.
C2_AsStated ==
    SingleKeyPresent => Returns(Coerced(data[rule.mapping_field]))

TimeStampConverted ==
    /\ plugin = "solarwinds"
    /\ rule.has_transformation /\ rule.transformation = "Time Stamp"
    /\ Truthy(data[rule.mapping_field])
    /\ IntConvertible(data[rule.mapping_field])

\* C2 amended: a single-key direct rule whose key is in the record resolves
\* to the (null-coerced) record value, never to default_value, except that a
\* SolarWinds rule with transformation "Time Stamp" resolves a truthy value
\* that int() accepts to int(value).
C2_MappedWhenPresent ==
    SingleKeyPresent =>
        IF TimeStampConverted
        THEN Returns(PyInt(data[rule.mapping_field]))
        ELSE Returns(Coerced(data[rule.mapping_field]))

C2_Witness ==
    /\ SingleKeyPresent /\ rule.has_default_value
    /\ rule.default_value = <<"d">>
    /\ Returns(StrV(<<"x">>))

\* C3: a rule whose mapping_field is absent or empty and that has a
\* default_value resolves to default_value for every record and either
\* is_json_path; SolarWinds reports it as not mapped.
C3_DefaultWhenNoMapping ==
    (Resolved /\ ~MappingPresent /\ rule.has_default_value)
    => /\ Returns(StrV(rule.default_value))
       /\ plugin = "solarwinds" => res.value[2] = FALSE

C3_Witness ==
    /\ Resolved /\ ~MappingPresent /\ rule.has_default_value
    /\ rule.has_mapping_field /\ is_json_path /\ DOMAIN data # {}
    /\ plugin = "solarwinds"
    /\ res = Return(<<StrV(rule.default_value), FALSE>>)

\* what a component contributes to the join: the sentinel or the record value
Contribution(c) == IF c = NULLStr THEN StrV(NULLStr) ELSE Coerced(data[c])

AllResolve == \A i \in 1..Len(Components) : ComponentResolves(Components[i])

ChronicleCompositeCall ==
    /\ Resolved /\ plugin = "chronicle" /\ ~is_json_path
    /\ MappingPresent /\ IsComposite

\* C6: a Chronicle composite rule with a default_value resolves to exactly
\* default_value when a component, at any position, is absent from the record.
C6_CompositeDefault ==
    (ChronicleCompositeCall /\ rule.has_default_value /\ ~AllResolve)
    => res = Return(StrV(rule.default_value))

C6_Witness ==
    /\ ChronicleCompositeCall /\ rule.has_default_value
    /\ rule.mapping_field = <<"a", "-", "b">>
    /\ <<"a">> \in DOMAIN data /\ <<"b">> \notin DOMAIN data
    /\ data[<<"a">>] = StrV(<<"x">>)
    /\ rule.default_value = <<"d">>
    /\ res = Return(StrV(<<"d">>))

\* C7 as stated: a Chronicle composite rule whose components all are in the
\* record or NULL resolves to the component values joined with " - " in rule
\* order; with a component absent and no default_value it raises
\* FieldNotFoundError.
C7_AsStated ==
    ChronicleCompositeCall =>
        /\ AllResolve =>
              res = Return(StrV(Join(
                        [i \in 1..Len(Components) |->
                            PyStr(Contribution(Components[i]))],
                        <<" ", "-", " ">>)))
        /\ (~AllResolve /\ ~rule.has_default_value)
              => res.kind = "FieldNotFoundError"

\* the outcome of a lookup that found nothing
AbsentOutcome ==
    IF rule.has_default_value
    THEN Returns(StrV(rule.default_value))
    ELSE res.kind = "FieldNotFoundError"

\* the outcome of a lookup of key k that found the record value
PresentOutcome(k) ==
    IF TimeStampConverted
    THEN Returns(PyInt(data[k]))
    ELSE Returns(Coerced(data[k]))

\* C8 as stated: in direct mode the sole component of a single-key rule is
\* trimmed before the lookup and NULL is the sentinel "NULL", as for the
\* components of a composite.
C8_AsStated ==
    (Resolved /\ ~is_json_path /\ MappingPresent /\ ~IsComposite
        /\ ~rule.has_transformation)
    => IF Components[1] = NULLStr THEN Returns(StrV(NULLStr))
       ELSE IF Components[1] \in DOMAIN data
            THEN Returns(Coerced(data[Components[1]]))
            ELSE AbsentOutcome

\* C8 amended: each component of a Chronicle composite is stripped of
\* surrounding spaces, then of surrounding brackets, before the lookup, and a
\* component that then is NULL yields "NULL" without a lookup; the key of a
\* single-key Chronicle rule and the mapping_field of every SolarWinds direct
\* rule are looked up verbatim, untrimmed and with no NULL sentinel.
C8_TrimOnlyInComposite ==
    (Resolved /\ ~is_json_path /\ MappingPresent) =>
        IF plugin = "chronicle" /\ IsComposite
        THEN /\ (AllResolve
                    /\ \A i \in 1..Len(Components) :
                          Contribution(Components[i]).type = "str")
                => res = Return(StrV(Join(
                            [i \in 1..Len(Components) |->
                                Contribution(Components[i]).s],
                            <<" ", "-", " ">>)))
             /\ ~AllResolve => AbsentOutcome
        ELSE IF rule.mapping_field \in DOMAIN data
             THEN PresentOutcome(rule.mapping_field)
             ELSE AbsentOutcome

C8_Witness ==
    /\ Resolved /\ plugin = "chronicle" /\ ~is_json_path
    /\ rule.mapping_field =
          <<"[", "a", "]", " ", "-", " ", "N", "U", "L", "L">>
    /\ DOMAIN data = {<<"a">>, NULLStr}
    /\ data[<<"a">>] = StrV(<<"x">>)
    /\ data[NULLStr] = StrV(<<"1", "2">>)
    /\ res = Return(StrV(<<"x", " ", "-", " ", "N", "U", "L", "L">>))

\* C9: in path mode a non-empty match list resolves to the str() of the
\* matches joined with "," in match order and (SolarWinds) is marked mapped;
\* an empty or failed match raises FieldNotFoundError.
C9_PathJoin ==
    (Resolved /\ is_json_path /\ MappingPresent) =>
        IF jsonpath(data, rule.mapping_field).found
        THEN /\ Returns(StrV(Join(
                    [i \in 1..Len(jsonpath(data, rule.mapping_field).vals) |->
                        PyStr(jsonpath(data, rule.mapping_field).vals[i])],
                    <<",">>)))
             /\ plugin = "solarwinds" => res.value[2] = TRUE
        ELSE res = Raise("FieldNotFoundError", rule.mapping_field)

C9_Witness ==
    /\ Resolved /\ is_json_path /\ plugin = "solarwinds"
    /\ rule.mapping_field = PathWildcard
    /\ DOMAIN data = {<<"a">>, <<"b">>}
    /\ data[<<"a">>] = StrV(<<"x">>)
    /\ data[<<"b">>] = FloatV(15)
    /\ res = Return(<<StrV(<<"x", ",", "1", ".", "5">>), TRUE>>)

\* C10 as stated: a key found in direct mode resolves a falsy non-numeric
\* value to "null" and every numeric value, an int zero and a float zero
\* included, to itself.
C10_AsStated ==
    (Resolved /\ ~is_json_path /\ MappingPresent
        /\ ~(plugin = "chronicle" /\ IsComposite)
        /\ rule.mapping_field \in DOMAIN data
        /\ ~rule.has_transformation)
    => IF data[rule.mapping_field].type \in {"int", "float"}
       THEN Returns(data[rule.mapping_field])
       ELSE ~Truthy(data[rule.mapping_field]) => Returns(StrV(NullStr))

-----------------------------------------------------------------------------
(* One call of get_headers or get_extensions *)

HeaderNames ==
    <<"Device Vendor", "Device Product", "Device Version",
      "Device Event Class ID", "Name", "Severity">>

ExtensionNames == <<"src", "dst", "act", "msg", "cat", "app">>

FieldRules ==
    { MappingRule(TRUE, <<"a">>, FALSE, <<>>, FALSE, "", FALSE, FALSE),
      MappingRule(TRUE, <<"a">>, TRUE, <<"d">>, FALSE, "", FALSE, FALSE),
      MappingRule(TRUE, <<"b">>, FALSE, <<>>, FALSE, "", FALSE, FALSE),
      MappingRule(TRUE, <<"a", "-", "b">>, FALSE, <<>>, FALSE, "", FALSE, FALSE),
      MappingRule(TRUE, <<"a">>, FALSE, <<>>, TRUE, "Time Stamp", FALSE, FALSE),
      MappingRule(TRUE, <<"$", ".", "a">>, FALSE, <<>>, FALSE, "", TRUE, TRUE),
      MappingRule(TRUE, <<"$", ".", "a">>, FALSE, <<>>, FALSE, "", TRUE, FALSE),
      MappingRule(FALSE, <<>>, TRUE, <<"d">>, FALSE, "", FALSE, FALSE),
      MappingRule(FALSE, <<>>, TRUE,
                  <<"$", "T", "e", "n", "a", "n", "t", "_", "N", "a", "m", "e">>,
                  FALSE, "", FALSE, FALSE) }

FieldKeys == { <<"a">>, <<"b">> }

FieldValues == { StrV(<<"x">>), StrV(<<>>), IntV(5) }

FieldRecords == UNION {[ks -> FieldValues] : ks \in SUBSET FieldKeys}

\* the ordered dicts of at most MaxFields rules under the given names
MappingsOver(names) ==
    UNION { { [i \in 1..n |-> [key |-> names[i], rule |-> rs[i]]] :
                rs \in [1..n -> FieldRules] } : n \in 0..MaxFields }

InitFields ==
    /\ scenario \in {"headers", "extensions"}
    /\ pc = "ready"
    /\ plugin = ""
    /\ rule = NoRule
    /\ is_json_path = FALSE
    /\ res = NoResult
    /\ mappings \in MappingsOver(IF scenario = "headers"
                                 THEN HeaderNames ELSE ExtensionNames)
    /\ data \in FieldRecords
    /\ data_type \in {"alerts", "webtx"}
    /\ out = NoOut
    /\ doc = <<>>
    /\ load = "none"
    /\ gen = NoCall
    /\ event = NoResult
    /\ config = NoConfig
    /\ raw_data = <<>>
    /\ pos = 0
    /\ transformed_data = <<>>
    /\ count = 0
    /\ log = <<>>

ChronicleGetHeaders ==
    /\ scenario = "headers"
    /\ pc = "ready"
    /\ pc' = "done"
    /\ plugin' = "chronicle"
    /\ out' = Chronicle_get_headers(mappings, data)
    /\ UNCHANGED <<scenario, rule, data, is_json_path, res, mappings,
                   data_type, doc, load,
                   gen, event, config, raw_data, pos, transformed_data,
                   count, log>>

ChronicleGetExtensions ==
    /\ scenario = "extensions"
    /\ pc = "ready"
    /\ pc' = "done"
    /\ plugin' = "chronicle"
    /\ out' = Chronicle_get_extensions(mappings, data)
    /\ UNCHANGED <<scenario, rule, data, is_json_path, res, mappings,
                   data_type, doc, load,
                   gen, event, config, raw_data, pos, transformed_data,
                   count, log>>

SolarWindsGetHeaders ==
    /\ scenario = "headers"
    /\ pc = "ready"
    /\ pc' = "done"
    /\ plugin' = "solarwinds"
    /\ out' = SolarWinds_get_headers(mappings, data, data_type)
    /\ UNCHANGED <<scenario, rule, data, is_json_path, res, mappings,
                   data_type, doc, load,
                   gen, event, config, raw_data, pos, transformed_data,
                   count, log>>

SolarWindsGetExtensions ==
    /\ scenario = "extensions"
    /\ pc = "ready"
    /\ pc' = "done"
    /\ plugin' = "solarwinds"
    /\ out' = SolarWinds_get_extensions(mappings, data)
    /\ UNCHANGED <<scenario, rule, data, is_json_path, res, mappings,
                   data_type, doc, load,
                   gen, event, config, raw_data, pos, transformed_data,
                   count, log>>

NextFields ==
    \/ ChronicleGetHeaders
    \/ ChronicleGetExtensions
    \/ SolarWindsGetHeaders
    \/ SolarWindsGetExtensions

SpecFields == InitFields /\ [][NextFields]_vars

-----------------------------------------------------------------------------
(* Properties of get_headers and get_extensions *)

Collected == scenario \in {"headers", "extensions"} /\ pc = "done"

\* the is_json_path argument the handler passes for entry i
PassedJsonPath(i) ==
    scenario = "extensions" /\ mappings[i].rule.has_is_json_path

\* entry i has a non-empty mapping_field, no default_value, and its value is
\* absent from the record
MissingWithoutDefault(i) ==
    LET m == mappings[i].rule
    IN  /\ m.has_mapping_field /\ m.mapping_field # <<>>
        /\ ~m.has_default_value
        /\ IF PassedJsonPath(i) THEN ~jsonpath(data, m.mapping_field).found
           ELSE IF plugin = "chronicle" /\ Len(Split(m.mapping_field, "-")) > 1
           THEN \E j \in 1..Len(Split(m.mapping_field, "-")) :
                    LET c == Strip(Strip(Split(m.mapping_field, "-")[j], {" "}),
                                   {"[", "]"})
                    IN  c # NULLStr /\ c \notin DOMAIN data
           ELSE m.mapping_field \notin DOMAIN data

\* what resolving entry i alone gives
Resolution(i) ==
    IF plugin = "chronicle"
    THEN Chronicle_get_field_value_from_data(
             mappings[i].rule, data, PassedJsonPath(i))
    ELSE SolarWinds_get_field_value_from_data(
             mappings[i].rule, data, PassedJsonPath(i))

OutKeys == {out.fields[k].key : k \in 1..Len(out.fields)}

\* the value the handler stores for entry i when its resolution returns
ExpectedValue(i) ==
    LET v == IF plugin = "solarwinds"
             THEN Resolution(i).value[1] ELSE Resolution(i).value
    IN  IF /\ scenario = "headers"
           /\ (plugin = "chronicle" \/ data_type # "webtx")
           /\ v.type = "str" /\ Lower(v.s) = TenantVariable
        THEN TenantName
        ELSE v

\* C4: a field with a non-empty mapping_field, no default_value and no value
\* in the record raises FieldNotFoundError, which get_headers and
\* get_extensions catch: the call is not aborted by it, the result lacks
\* exactly that key and holds every other configured field that resolves.
C4_SkippedFieldOnly ==
    Collected =>
        /\ \A i \in 1..Len(mappings) :
              MissingWithoutDefault(i) =>
                  /\ Resolution(i) =
                        Raise("FieldNotFoundError", mappings[i].rule.mapping_field)
                  /\ mappings[i].key \notin OutKeys
        /\ out.kind # "return" =>
              \E i \in 1..Len(mappings) :
                  Resolution(i).kind \notin {"return", "FieldNotFoundError"}
        /\ out.kind = "return" =>
              \A i \in 1..Len(mappings) :
                  Resolution(i).kind = "return" =>
                      \E k \in 1..Len(out.fields) :
                          /\ out.fields[k].key = mappings[i].key
                          /\ out.fields[k].value = ExpectedValue(i)

C4_Witness ==
    /\ Collected /\ plugin = "solarwinds" /\ scenario = "extensions"
    /\ Len(mappings) = 2
    /\ MissingWithoutDefault(1)
    /\ mappings[2].rule.mapping_field = <<"b">>
    /\ <<"b">> \in DOMAIN data
    /\ out.kind = "return"
    /\ OutKeys = {mappings[2].key}
    /\ out.missing = <<mappings[1].rule.mapping_field>>

-----------------------------------------------------------------------------
(* One call of get_cloudtrail_mappings *)

Subtypes == <<"dlp", "malware">>

LoadRules ==
    { m \in { MappingRule(hm, mf, hd, dv, FALSE, "", FALSE, FALSE) :
                hm \in BOOLEAN, mf \in { <<>>, <<"a">> },
                hd \in BOOLEAN, dv \in { <<>>, <<"d">> } } : WellFormed(m) }

\* a rule placed in the header or the extension object of a subtype
Placements ==
    [subtype : 1..Len(Subtypes), section : {"header", "extension"},
     rule : LoadRules]

\* the rules placed in one section of one subtype, as an ordered dict
RECURSIVE SectionOf(_, _, _, _)
SectionOf(placed, st, section, i) ==
    IF i > Len(placed) THEN <<>>
    ELSE IF placed[i].subtype = st /\ placed[i].section = section
    THEN <<[key |-> IF section = "header"
                    THEN HeaderNames[i] ELSE ExtensionNames[i],
            rule |-> placed[i].rule]>>
         \o SectionOf(placed, st, section, i + 1)
    ELSE SectionOf(placed, st, section, i + 1)

\* mappings["taxonomy"][data_type]: every subtype with its two objects
DocumentOf(placed) ==
    [st \in 1..Len(Subtypes) |->
        [subtype |-> Subtypes[st],
         header |-> SectionOf(placed, st, "header", 1),
         extension |-> SectionOf(placed, st, "extension", 1)]]

\* the documents that hold at most MaxDocRules rules
Documents ==
    { DocumentOf(placed) :
        placed \in UNION {[1..n -> Placements] : n \in 0..MaxDocRules} }

InitLoad ==
    /\ scenario = "load"
    /\ pc = "ready"
    /\ plugin = ""
    /\ rule = NoRule
    /\ is_json_path = FALSE
    /\ res = NoResult
    /\ mappings = <<>>
    /\ data = EmptyRecord
    /\ data_type = "alerts"
    /\ out = NoOut
    /\ doc \in Documents
    /\ load = "none"
    /\ gen = NoCall
    /\ event = NoResult
    /\ config = NoConfig
    /\ raw_data = <<>>
    /\ pos = 0
    /\ transformed_data = <<>>
    /\ count = 0
    /\ log = <<>>

GetCloudtrailMappings ==
    /\ scenario = "load"
    /\ pc = "ready"
    /\ pc' = "done"
    /\ plugin' = "cloudtrail"
    /\ load' = get_cloudtrail_mappings(doc)
    /\ UNCHANGED <<scenario, rule, data, is_json_path, res, mappings,
                   data_type, out, doc,
                   gen, event, config, raw_data, pos, transformed_data,
                   count, log>>

NextLoad == GetCloudtrailMappings

SpecLoad == InitLoad /\ [][NextLoad]_vars

-----------------------------------------------------------------------------
(* Properties of get_cloudtrail_mappings *)

Loaded == scenario = "load" /\ pc = "done"

\* mapping_field and default_value both absent or both empty, or only one of
\* them there and that one empty
NothingToResolve(m) ==
    \/ ~m.has_mapping_field /\ ~m.has_default_value
    \/ /\ m.has_mapping_field /\ m.has_default_value
       /\ m.mapping_field = <<>> /\ m.default_value = <<>>
    \/ m.has_mapping_field /\ ~m.has_default_value /\ m.mapping_field = <<>>
    \/ m.has_default_value /\ ~m.has_mapping_field /\ m.default_value = <<>>

\* C5 as stated: loading fails with MappingValidationError whenever a rule of
\* the data type, in a header object or in an extension object, has nothing
\* to resolve.
C5_AsStated ==
    (Loaded /\ \E st \in 1..Len(doc) :
                  \/ \E k \in 1..Len(doc[st].header) :
                        NothingToResolve(doc[st].header[k].rule)
                  \/ \E k \in 1..Len(doc[st].extension) :
                        NothingToResolve(doc[st].extension[k].rule))
    => load = "MappingValidationError"

-----------------------------------------------------------------------------
(* The CEF generator of the ArcSight plugin: text order, converters and    *)
(* sanitizers                                                              *)

\* the characters of the model in ascending order of their code points
CodeOrder ==
    <<"\n", " ", "$", "+", "-", ".",
      "0", "1", "2", "3", "4", "5", "6", "7", "8", "9", ":", "=",
      "A", "B", "C", "D", "E", "F", "G", "H", "I", "J", "K", "L", "M",
      "N", "O", "P", "Q", "R", "S", "T", "U", "V", "W", "X", "Y", "Z",
      "[", "\\", "]", "_",
      "a", "b", "c", "d", "e", "f", "g", "h", "i", "j", "k", "l", "m",
      "n", "o", "p", "q", "r", "s", "t", "u", "v", "w", "x", "y", "z",
      "|">>

\* ord(c), up to an order-preserving renumbering
Code(c) == CHOOSE i \in 1..Len(CodeOrder) : CodeOrder[i] = c

\* a < b for two str: the first differing character decides, a proper
\* prefix is smaller
RECURSIVE StrLess(_, _)
StrLess(a, b) ==
    IF b = <<>> THEN FALSE
    ELSE IF a = <<>> THEN TRUE
    ELSE IF Head(a) = Head(b) THEN StrLess(Tail(a), Tail(b))
    ELSE Code(Head(a)) < Code(Head(b))

RECURSIVE SortedInsert(_, _)
SortedInsert(t, parts) ==
    IF parts = <<>> THEN <<t>>
    ELSE IF StrLess(t, Head(parts)) THEN <<t>> \o parts
    ELSE <<Head(parts)>> \o SortedInsert(t, Tail(parts))

\* sorted(parts) for a list of str
RECURSIVE sorted(_)
sorted(parts) ==
    IF parts = <<>> THEN <<>>
    ELSE SortedInsert(Head(parts), sorted(Tail(parts)))

\* escaper(special_chars)(t): a backslash is put before every special
\* character and before every backslash
RECURSIVE escaper(_, _)
escaper(special_chars, t) ==
    IF t = <<>> THEN <<>>
    ELSE (IF Head(t) \in special_chars \cup {"\\"}
          THEN <<"\\", Head(t)>>
          ELSE <<Head(t)>>)
         \o escaper(special_chars, Tail(t))

\* str_sanitizer("[^\r\n]*", escape_chars=delimiter): a str without line
\* breaks, the characters of the delimiter escaped
prefix_field_str_sanitizer(delimiter, v) ==
    IF v.type # "str" THEN Raise("CEFTypeError", <<>>)
    ELSE IF \E i \in 1..Len(v.s) : v.s[i] \in {"\r", "\n"}
    THEN Raise("CEFValueError", <<>>)
    ELSE Return(StrV(escaper({delimiter[i] : i \in 1..Len(delimiter)}, v.s)))

SEVERITY_UNKNOWN == <<"U", "n", "k", "n", "o", "w", "n">>

\* the vocabulary "Unknown|Low|Medium|High|Info|Very-High"
SeverityVocabulary ==
    {SEVERITY_UNKNOWN, <<"L", "o", "w">>, <<"M", "e", "d", "i", "u", "m">>,
     <<"H", "i", "g", "h">>, <<"I", "n", "f", "o">>,
     <<"V", "e", "r", "y", "-", "H", "i", "g", "h">>}

\* str_sanitizer("Unknown|Low|Medium|High|Info|Very-High")
severity_sanitizer(v) ==
    IF v.type # "str" THEN Raise("CEFTypeError", <<>>)
    ELSE IF v.s \notin SeverityVocabulary THEN Raise("CEFValueError", <<>>)
    ELSE Return(StrV(escaper({}, v.s)))

\* SEVERITY_MAP: the table of every subtype but audit, keyed by the
\* lower-cased raw value
SEVERITY_MAP ==
    (<<"l", "o", "w">> :> <<"L", "o", "w">>)
    @@ (<<"m", "e", "d">> :> <<"M", "e", "d", "i", "u", "m">>)
    @@ (<<"h", "i", "g", "h">> :> <<"H", "i", "g", "h">>)
    @@ (<<"0">> :> <<"L", "o", "w">>)

\* AUDIT_SEVERITY_MAP: the table of the audit subtype
AUDIT_SEVERITY_MAP ==
    (<<"l", "o", "w">> :> <<"I", "n", "f", "o">>)
    @@ (<<"h", "i", "g", "h">> :> <<"H", "i", "g", "h">>)

-----------------------------------------------------------------------------
(* The CEF generator of the ArcSight plugin: get_cef_event *)

EpochWidth == 13

\* the converter padding on the left
epoch_convertor_LeftPad(val) ==
    IF Len(PyStr(val)) < EpochWidth
    THEN Return(StrV([i \in 1..(EpochWidth - Len(PyStr(val))) |-> "0"]
                     \o PyStr(val)))
    ELSE Return(StrV(PyStr(val)))

\* epoch_convertor().convert(val, debug_name)
epoch_convertor(val) ==
    IF Len(PyStr(val)) < EpochWidth
    THEN Return(StrV(PyStr(val)
                     \o [i \in 1..(EpochWidth - Len(PyStr(val))) |-> "0"]))
    ELSE Return(StrV(PyStr(val)))

\* epoch_sanitizer().sanitize(n, debug_name)
epoch_sanitizer(n) ==
    IF n.type # "str" THEN Raise("CEFTypeError", <<>>) ELSE Return(n)

\* type_converter()["String"]: the value as it is
string_converter(val) == Return(val)

\* type_converter()["Integer"]: the numeric parse of the value
integer_converter(val) ==
    IF IntConvertible(val) THEN Return(PyInt(val))
    ELSE Raise("CEFTypeError", <<>>)

\* get_sanitizers()["String"]: a str passes as it is
string_sanitizer(v) ==
    IF v.type # "str" THEN Raise("CEFTypeError", <<>>) ELSE Return(v)

\* get_sanitizers()["Integer"]: an int passes as it is
integer_sanitizer(v) ==
    IF v.type # "int" THEN Raise("CEFTypeError", <<>>) ELSE Return(v)

\* the transformations a mapping may name
TransformationNames == {"String", "Integer", "Epoch"}

\* the parse that leaves a rule of an unknown kind out of the table
RECURSIVE field_converters_SkipUnknown(_, _, _)
field_converters_SkipUnknown(taxonomy, i, acc) ==
    IF i > Len(taxonomy) THEN Return(acc)
    ELSE LET e == taxonomy[i]
             kind == IF e.transformation = "" THEN "String"
                     ELSE e.transformation
         IN  IF e.data_type = "json" \/ kind \notin TransformationNames
             THEN field_converters_SkipUnknown(taxonomy, i + 1, acc)
             ELSE field_converters_SkipUnknown(taxonomy, i + 1,
                                               (e.field :> kind) @@ acc)

\* CEFGenerator._type_converter and CEFGenerator._valid_extensions: the
\* parse of mapping["taxonomy"], given as the list of its rules in the
\* order the nested loops visit them, from rule i on. The table built is
\* keyed by the field name alone and holds the kind whose converter and
\* sanitizer the field gets; a rule without a transformation is a String
\* rule ("" stands for the missing key); a kind without an entry in
\* converters is a KeyError, which the except clause logs and raises again
RECURSIVE field_converters(_, _, _)
field_converters(taxonomy, i, acc) ==
    IF i > Len(taxonomy) THEN Return(acc)
    ELSE LET e == taxonomy[i]
             kind == IF e.transformation = "" THEN "String"
                     ELSE e.transformation
         IN  IF e.data_type = "json"
             THEN field_converters(taxonomy, i + 1, acc)
             ELSE IF kind \notin TransformationNames
             THEN Raise("KeyError", <<>>)
             ELSE field_converters(taxonomy, i + 1,
                                   (e.field :> kind) @@ acc)

\* self.extension_converters[name].converter(value, name)
extension_converters(g, name, value) ==
    IF name \notin DOMAIN g.transformation THEN Raise("KeyError", <<>>)
    ELSE CASE g.transformation[name] = "Epoch" -> epoch_convertor(value)
           [] g.transformation[name] = "Integer" -> integer_converter(value)
           [] OTHER -> string_converter(value)

\* self.valid_extensions[name].sanitizer(value, name)
valid_extensions(g, name, value) ==
    IF name \notin DOMAIN g.transformation THEN Raise("KeyError", <<>>)
    ELSE CASE g.transformation[name] = "Epoch" -> epoch_sanitizer(value)
           [] g.transformation[name] = "Integer" -> integer_sanitizer(value)
           [] OTHER -> string_sanitizer(value)

\* key in d, for a dict kept as the list of its (key, value) items
HasKey(d, key) == \E i \in 1..Len(d) : d[i].key = key

\* d[key]
Lookup(d, key) == d[CHOOSE i \in 1..Len(d) : d[i].key = key].value

\* d[key] = value: a new key goes last, an old one keeps its place
DictSet(d, key, value) ==
    IF HasKey(d, key)
    THEN [i \in 1..Len(d) |->
              IF d[i].key = key THEN [key |-> key, value |-> value] ELSE d[i]]
    ELSE Append(d, [key |-> key, value |-> value])

\* a sanitized value stored as it is, not escaped
EscapeSanitized_Skip(v) == v

\* the escaping of a sanitized value that is a str
EscapeSanitized(v) ==
    IF v.type = "str" THEN StrV(escaper({"="}, v.s)) ELSE v

\* one round of the loop over extensions.items(): the converted value, the
\* sanitized value and what is stored in extension_strs
ExtensionStep(g, e) ==
    LET c == extension_converters(g, e.key, e.value)
        z == IF c.kind = "return" THEN valid_extensions(g, e.key, c.value)
             ELSE NoResult
    IN  [name |-> e.key,
         converted |-> c,
         sanitized |-> z,
         stored |-> z.kind = "return",
         value |-> IF z.kind = "return" THEN EscapeSanitized(z.value)
                   ELSE NoneV]

\* extension_strs after the loop over the first i extensions
RECURSIVE ExtensionStrs(_, _)
ExtensionStrs(g, i) ==
    IF i = 0 THEN <<>>
    ELSE LET step == ExtensionStep(g, g.extensions[i])
         IN  IF step.stored
             THEN DictSet(ExtensionStrs(g, i - 1), step.name, step.value)
             ELSE ExtensionStrs(g, i - 1)

ValidDate == <<"2", "0", "2", "4", "-", "0", "1", "-", "0", "2">>

ValidTime == <<"0", "3", ":", "0", "4", ":", "0", "5">>

\* the milliseconds of ValidDate ValidTime
ValidMillis ==
    <<"1", "7", "0", "4", "1", "6", "4", "6", "4", "5", "0", "0", "0">>

\* webtx_timestamp(raw_data): strptime raises ValueError on any text that
\* is not "%Y-%m-%d %H:%M:%S"
webtx_timestamp(raw) ==
    IF Truthy(raw.date) /\ Truthy(raw.time)
    THEN IF PyStr(raw.date) = ValidDate /\ PyStr(raw.time) = ValidTime
         THEN Return(StrV(ValidMillis))
         ELSE Raise("ValueError", <<>>)
    ELSE Return(NoneV)

possible_headers ==
    <<"Device Vendor", "Device Product", "Device Version",
      "Device Event Class ID", "Name", "Severity">>

\* get_header_value(header, headers)
get_header_value(g, header, value) ==
    IF header = "Severity" THEN severity_sanitizer(value)
    ELSE prefix_field_str_sanitizer(g.delimiter, value)

\* the normalization looking in the general table for every subtype
NormalizeSeverity_GeneralTableOnly(subtype, value) ==
    IF Lower(PyStr(value)) \in DOMAIN SEVERITY_MAP
    THEN StrV(SEVERITY_MAP[Lower(PyStr(value))])
    ELSE StrV(SEVERITY_UNKNOWN)

\* headers[header] = TABLE.get(str(headers[header]).lower(), SEVERITY_UNKNOWN)
NormalizeSeverity(subtype, value) ==
    LET table == IF subtype \in {"audit"} THEN AUDIT_SEVERITY_MAP
                 ELSE SEVERITY_MAP
    IN  IF Lower(PyStr(value)) \in DOMAIN table
        THEN StrV(table[Lower(PyStr(value))])
        ELSE StrV(SEVERITY_UNKNOWN)

\* one round of the loop over possible_headers: what is appended to
\* cef_components
HeaderStep(g, header) ==
    IF ~HasKey(g.headers, header) THEN <<>>
    ELSE LET value == IF header = "Severity"
                      THEN NormalizeSeverity(g.subtype, Lookup(g.headers, header))
                      ELSE Lookup(g.headers, header)
             r == get_header_value(g, header, value)
         IN  IF r.kind = "return" THEN <<r.value.s>> ELSE <<>>

\* the header loop going through the headers dict in its own order
RECURSIVE HeaderComponents_DictOrder(_, _)
HeaderComponents_DictOrder(g, i) ==
    IF i > Len(g.headers) THEN <<>>
    ELSE (IF \E k \in 1..Len(possible_headers) :
                 possible_headers[k] = g.headers[i].key
          THEN HeaderStep(g, g.headers[i].key)
          ELSE <<>>)
         \o HeaderComponents_DictOrder(g, i + 1)

\* the header components appended by the rounds from header i on
RECURSIVE HeaderComponents(_, _)
HeaderComponents(g, i) ==
    IF i > Len(possible_headers) THEN <<>>
    ELSE HeaderStep(g, possible_headers[i]) \o HeaderComponents(g, i + 1)

\* "{} {} CEF:{}".format(time, hostname, self.cef_version), the time being
\* time.strftime("%b %d %H:%M:%S", time.localtime(time.time()))
Prefix(g) ==
    <<"J", "a", "n", " ", "0", "2", " ", "0", "3", ":", "0", "4", ":", "0", "5">>
    \o <<" ">> \o g.log_source_identifier
    \o <<" ", "C", "E", "F", ":">> \o g.cef_version

CefOutcome(kind, line, steps, extension_strs, cef_components, extensions_str) ==
    [kind |-> kind, value |-> StrV(line), steps |-> steps,
     extension_strs |-> extension_strs, cef_components |-> cef_components,
     extensions_str |-> extensions_str]

\* CEFGenerator.get_cef_event
get_cef_event(g) ==
    LET steps == [i \in 1..Len(g.extensions) |->
                      ExtensionStep(g, g.extensions[i])]
        resolved == ExtensionStrs(g, Len(g.extensions))
        date == IF g.data_type = "webtx" THEN webtx_timestamp(g.raw_data)
                ELSE Return(NoneV)
        extension_strs ==
            IF date.kind = "return" /\ Truthy(date.value)
            THEN DictSet(resolved, <<"r", "t">>, date.value)
            ELSE resolved
        pairs == [i \in 1..Len(extension_strs) |->
                     extension_strs[i].key \o <<"=">>
                     \o PyStr(extension_strs[i].value)]
        extensions_str == Join(sorted(pairs), <<" ">>)
        cef_components ==
            <<Prefix(g)>> \o HeaderComponents(g, 1) \o <<extensions_str>>
    IN  IF date.kind # "return"
        THEN CefOutcome(date.kind, <<>>, steps, resolved, <<>>, <<>>)
        ELSE CefOutcome("return", Join(cef_components, g.delimiter), steps,
                        extension_strs, cef_components, extensions_str)

\* the messages get_cef_event gives to self.logger.error: one for every
\* extension that is not stored, one for every configured header that is not
\* a possible header, one for every header the sanitizer rejects
CefLog(g) ==
    LET Entry(about, name) ==
            [level |-> "error", about |-> about, name |-> name, n |-> 0]
        ext == [i \in 1..Len(g.extensions) |->
                   IF ExtensionStep(g, g.extensions[i]).stored THEN <<>>
                   ELSE <<Entry("extension", g.extensions[i].key)>>]
        invalid == [i \in 1..Len(g.headers) |->
                       IF \E k \in 1..Len(possible_headers) :
                              possible_headers[k] = g.headers[i].key
                       THEN <<>>
                       ELSE <<Entry("invalid header", <<g.headers[i].key>>)>>]
        hdr == [k \in 1..Len(possible_headers) |->
                   IF HasKey(g.headers, possible_headers[k])
                      /\ HeaderStep(g, possible_headers[k]) = <<>>
                   THEN <<Entry("header", <<possible_headers[k]>>)>>
                   ELSE <<>>]
    IN  Join(ext, <<>>) \o Join(invalid, <<>>) \o Join(hdr, <<>>)

-----------------------------------------------------------------------------
(* One call of get_cef_event *)

\* the names a mapping file gives to extensions
ExtensionKeys == {<<"a">>, <<"b">>, <<"a", "1">>, <<"a", "b">>}

\* an extension value with the transformation its field is mapped with;
\* "none" is a field the mapping file does not name
ExtensionCases ==
    {<<StrV(<<"x">>), "String">>,
     <<StrV(<<"x", "=", "y">>), "String">>,
     <<StrV(<<"u", " ", "v", "=", "w">>), "String">>,
     <<StrV(<<>>), "String">>,
     <<IntV(5), "String">>,
     <<StrV(<<"1", "2">>), "Integer">>,
     <<StrV(<<"x">>), "Integer">>,
     <<IntV(5), "Integer">>,
     <<StrV(<<"1", "2">>), "Epoch">>,
     <<StrV(<<"1", "=", "2">>), "Epoch">>,
     <<IntV(5), "Epoch">>,
     <<StrV(<<"x">>), "none">>}

\* the keys of the headers dict: four of the possible headers and one
\* that is not a CEF header
HeaderKeys == {"Device Vendor", "Device Version", "Name", "Severity", "Foo"}

HeaderValues ==
    {StrV(<<"H", "i", "g", "h">>), StrV(<<"l", "o", "w">>), StrV(<<"x">>),
     StrV(<<"a", "|", "b">>), StrV(<<"a", "\n", "b">>), IntV(0)}

\* the lists of at most max (key, case) pairs with distinct keys
ItemLists(keys, cases, max) ==
    {q \in UNION {[1..k -> keys \X cases] : k \in 0..max} :
        \A i, j \in 1..Len(q) : i # j => q[i][1] # q[j][1]}

\* a generator built from a mapping file that maps the fields as the items
\* say, and the arguments of one get_cef_event call
CefCall(delimiter, dt, subtype, raw, headers, items) ==
    [kind |-> "call",
     delimiter |-> delimiter,
     cef_version |-> <<"0">>,
     log_source_identifier |-> <<"c", "e">>,
     transformation |->
         [k \in {items[i][1] : i \in {j \in 1..Len(items) :
                                        items[j][2][2] \in TransformationNames}}
            |-> (CHOOSE c \in {items[i] : i \in 1..Len(items)} : c[1] = k)[2][2]],
     raw_data |-> raw,
     headers |-> [i \in 1..Len(headers) |->
                     [key |-> headers[i][1], value |-> headers[i][2]]],
     extensions |-> [i \in 1..Len(items) |->
                        [key |-> items[i][1], value |-> items[i][2][1]]],
     data_type |-> dt,
     subtype |-> subtype]

\* a timestamp one digit short of the epoch width
TwelveDigits ==
    <<"1", "6", "9", "9", "9", "9", "9", "9", "9", "9", "9", "9">>

\* the calls: some vary the extensions, some are for webtx records with
\* their date and time fields, some vary the headers, the subtype and the
\* delimiter, some vary the length of an Epoch value
CefCalls ==
    LET NoDateTime == [date |-> NoneV, time |-> NoneV]
        WebtxFields ==
            {NoDateTime,
             [date |-> StrV(ValidDate), time |-> StrV(ValidTime)],
             [date |-> StrV(ValidDate), time |-> NoneV],
             [date |-> StrV(<<>>), time |-> StrV(ValidTime)],
             [date |-> StrV(<<"x">>), time |-> StrV(ValidTime)]}
        OneHeader == << <<"Name", StrV(<<"x">>)>> >>
        OneExtension == << <<<<"a">>, <<StrV(<<"x">>), "String">>>> >>
        AllHeaders ==
            << <<"Severity", StrV(<<"H", "i", "g", "h">>)>>,
               <<"Name", StrV(<<"n">>)>>,
               <<"Device Event Class ID", StrV(<<"i">>)>>,
               <<"Device Version", StrV(<<"v">>)>>,
               <<"Device Product", StrV(<<"p">>)>>,
               <<"Device Vendor", StrV(<<"d">>)>> >>
        EpochText(len) == [i \in 1..len |-> DigitChars[(i % 10) + 1]]
    IN  {CefCall(<<"|">>, "alerts", "dlp", NoDateTime, OneHeader, items) :
            items \in ItemLists(ExtensionKeys, ExtensionCases, MaxExtensions)}
        \cup
        {CefCall(<<"|">>, "webtx", "v2", raw, OneHeader, items) :
            raw \in WebtxFields,
            items \in ItemLists(ExtensionKeys, ExtensionCases, 1)}
        \cup
        {CefCall(delimiter, "alerts", subtype, NoDateTime, headers,
                 OneExtension) :
            delimiter \in {<<"|">>, <<" ">>},
            subtype \in {"audit", "dlp"},
            headers \in ItemLists(HeaderKeys, HeaderValues, MaxHeaders)
                        \cup {AllHeaders}}
        \cup
        {CefCall(<<"|">>, "alerts", "dlp", NoDateTime, OneHeader,
                 << <<<<"a">>, <<StrV(text), "Epoch">>>> >>) :
            text \in {EpochText(len) : len \in 0..MaxEpochLen}
                     \cup {TwelveDigits}}

InitCef ==
    /\ scenario = "cef"
    /\ pc = "ready"
    /\ plugin = ""
    /\ rule = NoRule
    /\ is_json_path = FALSE
    /\ res = NoResult
    /\ mappings = <<>>
    /\ data = EmptyRecord
    /\ data_type = ""
    /\ out = NoOut
    /\ doc = <<>>
    /\ load = "none"
    /\ gen \in CefCalls
    /\ event = NoResult
    /\ config = NoConfig
    /\ raw_data = <<>>
    /\ pos = 0
    /\ transformed_data = <<>>
    /\ count = 0
    /\ log = <<>>

GetCefEvent ==
    /\ scenario = "cef"
    /\ pc = "ready"
    /\ pc' = "done"
    /\ plugin' = "arcsight"
    /\ event' = get_cef_event(gen)
    /\ log' = log \o CefLog(gen)
    /\ UNCHANGED <<scenario, rule, data, is_json_path, res, mappings,
                   data_type, out, doc, load, gen, config, raw_data, pos,
                   transformed_data, count>>

NextCef == GetCefEvent

SpecCef == InitCef /\ [][NextCef]_vars

-----------------------------------------------------------------------------
(* Properties of get_cef_event *)

\* the call returned a CEF line
Emitted == scenario = "cef" /\ pc = "done" /\ event.kind = "return"

\* the number of backslashes that stand right before position i
RECURSIVE BackslashesBefore(_, _)
BackslashesBefore(t, i) ==
    IF i > 1 /\ t[i - 1] = "\\" THEN 1 + BackslashesBefore(t, i - 1) ELSE 0

\* the positions of the "=" that are not escaped: each separates a key
\* from its value
Separators(t) ==
    {i \in 1..Len(t) : t[i] = "=" /\ BackslashesBefore(t, i) % 2 = 0}

NthSeparator(t, n) ==
    CHOOSE i \in Separators(t) :
        Cardinality({j \in Separators(t) : j < i}) = n - 1

\* a key starts after the last space before its separator
KeyStart(t, i) ==
    IF \E j \in 1..(i - 1) : t[j] = " "
    THEN 1 + CHOOSE j \in 1..(i - 1) :
                 t[j] = " " /\ \A k \in (j + 1)..(i - 1) : t[k] # " "
    ELSE 1

RECURSIVE Unescape(_)
Unescape(t) ==
    IF t = <<>> THEN <<>>
    ELSE IF Head(t) = "\\" /\ Len(t) > 1
         THEN <<t[2]>> \o Unescape(SubSeq(t, 3, Len(t)))
         ELSE <<Head(t)>> \o Unescape(Tail(t))

\* the key=value pairs a reader of the extension string finds
ParsedPairs(t) ==
    [n \in 1..Cardinality(Separators(t)) |->
        LET i == NthSeparator(t, n)
            last == IF n < Cardinality(Separators(t))
                    THEN KeyStart(t, NthSeparator(t, n + 1)) - 2
                    ELSE Len(t)
        IN  [key |-> SubSeq(t, KeyStart(t, i), i - 1),
             value |-> Unescape(SubSeq(t, i + 1, last))]]

\* C11: the extension string of every emitted line lists its key=value
\* pairs in ascending lexicographic order of their keys, one space between
\* two pairs, whatever the order of the extensions dict.
C11_AsStated ==
    Emitted =>
        LET pairs == ParsedPairs(event.extensions_str)
        IN  /\ Len(pairs) = Len(event.extension_strs)
            /\ \A n \in 1..(Len(pairs) - 1) :
                   StrLess(pairs[n].key, pairs[n + 1].key)

\* the rounds of the extension loop that stored a value
StoredSteps == {i \in 1..Len(event.steps) : event.steps[i].stored}

\* every "=" of the text has an odd number of backslashes before it
EveryEqualsEscaped(t) ==
    \A i \in 1..Len(t) : t[i] = "=" => BackslashesBefore(t, i) % 2 = 1

\* the pairs a reader must find: every stored sanitized value as it was
\* before escaping, and the rt of a webtx record
OriginalPairs ==
    {[key |-> event.steps[i].name,
      value |-> PyStr(event.steps[i].sanitized.value)] : i \in StoredSteps}
    \cup (IF HasKey(event.extension_strs, <<"r", "t">>)
          THEN {[key |-> <<"r", "t">>,
                 value |-> PyStr(Lookup(event.extension_strs, <<"r", "t">>))]}
          ELSE {})

\* C15: in every emitted line each "=" inside a string-valued extension
\* value is escaped, and reading the extension string back into key=value
\* pairs gives exactly one pair per extension, with the value it had before
\* escaping.
C15_EqualsEscaped ==
    Emitted =>
        /\ \A i \in 1..Len(event.extension_strs) :
               event.extension_strs[i].value.type = "str"
               => EveryEqualsEscaped(event.extension_strs[i].value.s)
        /\ LET pairs == ParsedPairs(event.extensions_str)
           IN  /\ Len(pairs) = Len(event.extension_strs)
               /\ {pairs[n] : n \in 1..Len(pairs)} = OriginalPairs

\* an emitted line one of whose extension values held a "=" between two
\* words before escaping
C15_Witness ==
    /\ Emitted
    /\ \E i \in StoredSteps :
           /\ event.steps[i].sanitized.value = StrV(<<"u", " ", "v", "=", "w">>)
           /\ Lookup(event.extension_strs, event.steps[i].name)
                  = StrV(<<"u", " ", "v", "\\", "=", "w">>)
    /\ Len(event.extension_strs) = 2

\* the call is over, whatever its outcome
Called == scenario = "cef" /\ pc = "done"

\* the rounds of the extension loop whose field is mapped as Epoch
EpochSteps ==
    {i \in 1..Len(gen.extensions) :
        /\ gen.extensions[i].key \in DOMAIN gen.transformation
        /\ gen.transformation[gen.extensions[i].key] = "Epoch"}

\* C16: the Epoch converter returns a text shorter than 13 characters
\* followed by "0" up to exactly 13 characters, and a text of 13 or more
\* characters unchanged.
C16_EpochPadded ==
    Called =>
        \A i \in EpochSteps :
            gen.extensions[i].value.type = "str" =>
                LET val == gen.extensions[i].value.s
                    got == event.steps[i].converted
                IN  /\ got.kind = "return"
                    /\ got.value.type = "str"
                    /\ IF Len(val) < 13
                       THEN /\ Len(got.value.s) = 13
                            /\ SubSeq(got.value.s, 1, Len(val)) = val
                            /\ \A j \in (Len(val) + 1)..13 : got.value.s[j] = "0"
                       ELSE got.value.s = val

\* the 12 digits "169999999999" converted to "1699999999990"
C16_Witness ==
    /\ Called
    /\ \E i \in EpochSteps :
           /\ gen.extensions[i].value = StrV(TwelveDigits)
           /\ event.steps[i].converted = Return(StrV(TwelveDigits \o <<"0">>))

\* C17: the Epoch converter rejects an input that is not text with a type
\* error and does not turn it into text.
C17_AsStated ==
    Called =>
        \A i \in EpochSteps :
            gen.extensions[i].value.type # "str" =>
                /\ event.steps[i].converted.kind = "CEFTypeError"
                /\ ~event.steps[i].stored

\* the order in which a CEF line carries its headers
ClaimedOrder ==
    <<"Device Vendor", "Device Product", "Device Version",
      "Device Event Class ID", "Name", "Severity">>

Present(h) == HasKey(gen.headers, h)

\* the sanitizer accepts the header: Severity is normalized to a word of
\* the vocabulary, any other header must be a str without line breaks
Survives(h) ==
    /\ Present(h)
    /\ h # "Severity" =>
           /\ Lookup(gen.headers, h).type = "str"
           /\ \A i \in 1..Len(Lookup(gen.headers, h).s) :
                  Lookup(gen.headers, h).s[i] # "\n"

\* the canonical severity of the raw Severity value
ExpectedSeverity ==
    LET raw == Lower(PyStr(Lookup(gen.headers, "Severity")))
    IN  IF gen.subtype = "audit"
        THEN IF raw \in DOMAIN AUDIT_SEVERITY_MAP
             THEN AUDIT_SEVERITY_MAP[raw] ELSE SEVERITY_UNKNOWN
        ELSE IF raw \in DOMAIN SEVERITY_MAP
             THEN SEVERITY_MAP[raw] ELSE SEVERITY_UNKNOWN

\* the text of a header in the line: the canonical severity, or the value
\* with the characters of the delimiter escaped
HeaderText(h) ==
    IF h = "Severity" THEN ExpectedSeverity
    ELSE escaper({gen.delimiter[i] : i \in 1..Len(gen.delimiter)},
                 PyStr(Lookup(gen.headers, h)))

\* the place in cef_components of the k-th header of the order
ComponentOf(k) ==
    1 + Cardinality({j \in 1..k : Survives(ClaimedOrder[j])})

\* C18: the Severity component of an emitted line is the entry of the
\* lower-cased raw value in the audit table for subtype audit and in the
\* general table otherwise, Unknown when the table has no such entry; it is
\* normalized before it is sanitized, and every other header is emitted as
\* its own sanitized value.
C18_SeverityNormalized ==
    Emitted =>
        \A k \in 1..Len(ClaimedOrder) :
            Survives(ClaimedOrder[k]) =>
                /\ ComponentOf(k) < Len(event.cef_components)
                /\ event.cef_components[ComponentOf(k)]
                       = HeaderText(ClaimedOrder[k])
                /\ ClaimedOrder[k] = "Severity" =>
                       event.cef_components[ComponentOf(k)]
                           \in SeverityVocabulary

\* an audit line whose raw Severity "low" is found in the audit table, next
\* to a Name header that holds "low" and keeps it
C18_Witness ==
    /\ Emitted
    /\ gen.subtype = "audit"
    /\ Present("Severity")
    /\ Lookup(gen.headers, "Severity") = StrV(<<"l", "o", "w">>)
    /\ Present("Name")
    /\ Lookup(gen.headers, "Name") = StrV(<<"l", "o", "w">>)
    /\ event.cef_components[2] = <<"l", "o", "w">>
    /\ event.cef_components[3] = AUDIT_SEVERITY_MAP[<<"l", "o", "w">>]
    /\ AUDIT_SEVERITY_MAP[<<"l", "o", "w">>] # SEVERITY_MAP[<<"l", "o", "w">>]

\* the components of the headers from the k-th of the fixed order on:
\* those the dict holds, or only those the sanitizer accepts as well
RECURSIVE HeadersFrom(_, _)
HeadersFrom(k, accepted_only) ==
    IF k > Len(ClaimedOrder) THEN <<>>
    ELSE (IF (IF accepted_only THEN Survives(ClaimedOrder[k])
              ELSE Present(ClaimedOrder[k]))
          THEN <<HeaderText(ClaimedOrder[k])>>
          ELSE <<>>)
         \o HeadersFrom(k + 1, accepted_only)

\* C19 as stated: every emitted line is the prefix, one component for each
\* of the six headers the headers dict holds, in the fixed order, and the
\* extension string, joined by the delimiter.
C19_AsStated ==
    Emitted =>
        /\ event.cef_components
               = <<Prefix(gen)>> \o HeadersFrom(1, FALSE)
                 \o <<event.extensions_str>>
        /\ event.value.s = Join(event.cef_components, gen.delimiter)

\* C19: every emitted line is the prefix, one component for each of the six
\* headers the headers dict holds and the sanitizer accepts, in the fixed
\* order whatever the order of the dict, and the extension string, joined
\* by the delimiter.
C19_FixedHeaderOrder ==
    Emitted =>
        /\ event.cef_components
               = <<Prefix(gen)>> \o HeadersFrom(1, TRUE)
                 \o <<event.extensions_str>>
        /\ event.value.s = Join(event.cef_components, gen.delimiter)

\* a line made from a headers dict that holds the six headers in the
\* reverse of the fixed order
C19_Witness ==
    /\ Emitted
    /\ Len(gen.headers) = 6
    /\ gen.headers[1].key = "Severity"
    /\ gen.headers[6].key = "Device Vendor"
    /\ Len(event.cef_components) = 8
    /\ event.cef_components[2] = <<"d">>
    /\ event.cef_components[7] = <<"H", "i", "g", "h">>

\* C20: a call whose extension set is empty after resolution, conversion
\* and sanitization raises EmptyExtensionError, and no emitted line has an
\* empty extension string.
C20_AsStated ==
    /\ (Called /\ event.extension_strs = <<>> /\ event.kind # "ValueError")
       => event.kind = "EmptyExtensionError"
    /\ Emitted => event.extensions_str # <<>>

-----------------------------------------------------------------------------
(* The loop of transform over the records of a batch *)

\* CEFGenerator.get_cef_event of the SolarWinds plugin: the event encodes
\* the headers and the extensions; an empty extension set is an error
SolarWinds_get_cef_event(header, extension) ==
    IF extension = <<>> THEN Raise("EmptyExtensionError", <<>>)
    ELSE [kind |-> "return",
          value |-> [header |-> header, extension |-> extension]]

\* UDMGenerator.get_udm_event of the Chronicle plugin
get_udm_event(header, extension) ==
    IF extension = <<>> THEN Raise("EmptyExtensionError", <<>>)
    ELSE [kind |-> "return",
          value |-> [header |-> header, extension |-> extension]]

\* what one round of the loop does: whether the loop goes on, the events
\* appended to transformed_data and the increment of count
Round(kind, events, skipped) ==
    [kind |-> kind, events |-> events, skipped |-> skipped]

\* the round with the two mapped flags combined by "and"
SolarWindsRound_BothFlags(cfg, d, dt) ==
    IF DOMAIN d = {} THEN Round("next", <<>>, 1)
    ELSE LET h == SolarWinds_get_headers(cfg.header, d, dt)
             e == SolarWinds_get_extensions(cfg.extension, d)
             ev == SolarWinds_get_cef_event(h.fields, e.fields)
         IN  IF h.kind # "return" THEN Round("next", <<>>, 0)
             ELSE IF e.kind # "return" THEN Round("next", <<>>, 0)
             ELSE IF ~(h.mapped /\ e.mapped) THEN Round("next", <<>>, 1)
             ELSE IF ev.kind = "return" THEN Round("next", <<ev.value>>, 0)
             ELSE Round("next", <<>>, 0)

\* one round of the loop of SolarWindsPlugin.transform
SolarWindsRound(cfg, d, dt) ==
    IF DOMAIN d = {} THEN Round("next", <<>>, 1)
    ELSE LET h == SolarWinds_get_headers(cfg.header, d, dt)
             e == SolarWinds_get_extensions(cfg.extension, d)
             ev == SolarWinds_get_cef_event(h.fields, e.fields)
         IN  IF h.kind # "return" THEN Round("next", <<>>, 0)
             ELSE IF e.kind # "return" THEN Round("next", <<>>, 0)
             ELSE IF ~(h.mapped \/ e.mapped) THEN Round("next", <<>>, 1)
             ELSE IF ev.kind = "return" THEN Round("next", <<ev.value>>, 0)
             ELSE Round("next", <<>>, 0)

\* the round without the except clause around get_extensions
ChronicleRound_ExtensionErrorEscapes(cfg, d) ==
    LET h == Chronicle_get_headers(cfg.header, d)
        e == Chronicle_get_extensions(cfg.extension, d)
        ev == get_udm_event(h.fields, e.fields)
    IN  IF h.kind # "return" THEN Round("next", <<>>, 0)
        ELSE IF e.kind # "return" THEN Round("raise", <<>>, 0)
        ELSE IF ev.kind = "return" THEN Round("next", <<ev.value>>, 0)
        ELSE Round("next", <<>>, 0)

\* one round of the loop of ChroniclePlugin.transform
ChronicleRound(cfg, d) ==
    LET h == Chronicle_get_headers(cfg.header, d)
        e == Chronicle_get_extensions(cfg.extension, d)
        ev == get_udm_event(h.fields, e.fields)
    IN  IF h.kind # "return" THEN Round("next", <<>>, 0)
        ELSE IF e.kind # "return" THEN Round("next", <<>>, 0)
        ELSE IF ev.kind = "return" THEN Round("next", <<ev.value>>, 0)
        ELSE Round("next", <<>>, 0)

\* the rules of a subtype mapping
TransformRules ==
    { MappingRule(TRUE, <<"a">>, FALSE, <<>>, FALSE, "", FALSE, FALSE),
      MappingRule(TRUE, <<"a">>, TRUE, <<"d">>, FALSE, "", FALSE, FALSE),
      MappingRule(TRUE, <<"a", "-", "b">>, FALSE, <<>>, FALSE, "", FALSE, FALSE),
      MappingRule(FALSE, <<>>, TRUE, <<"d">>, FALSE, "", FALSE, FALSE),
      MappingRule(TRUE, <<"$", ".", "a">>, FALSE, <<>>, FALSE, "", TRUE, TRUE),
      NoRule }

\* a section of a subtype mapping: no rule, or one rule under the name
SectionsOver(name) ==
    {<<>>} \cup {<<[key |-> name, rule |-> r]>> : r \in TransformRules}

\* the records of a batch
TransformRecords ==
    { EmptyRecord,
      (<<"a">> :> StrV(<<"x">>)),
      (<<"b">> :> StrV(<<"x">>)),
      (<<"a">> :> IntV(5)) @@ (<<"b">> :> StrV(<<"x">>)),
      (<<"a">> :> StrV(<<>>)) }

\* the loop starts on a batch of at most MaxBatch records
InitTransform ==
    /\ scenario = "transform"
    /\ pc = "loop"
    /\ plugin \in {"solarwinds", "chronicle"}
    /\ rule = NoRule
    /\ is_json_path = FALSE
    /\ res = NoResult
    /\ mappings = <<>>
    /\ data = EmptyRecord
    /\ data_type = "alerts"
    /\ out = NoOut
    /\ doc = <<>>
    /\ load = "none"
    /\ gen = NoCall
    /\ event = NoResult
    /\ config \in {[header |-> h, extension |-> e] :
                      h \in SectionsOver("Name"), e \in SectionsOver("src")}
    /\ raw_data \in UNION {[1..n -> TransformRecords] : n \in 0..MaxBatch}
    /\ pos = 0
    /\ transformed_data = <<>>
    /\ count = 0
    /\ log = <<>>

\* a round of the loop leaves the loop when an exception escapes it; a
\* round that goes on without an event and without counting the record is
\* one of the except clauses, which log an error
TakeRound(round) ==
    /\ pc' = IF round.kind = "raise" THEN "raised" ELSE "loop"
    /\ pos' = pos + 1
    /\ transformed_data' = transformed_data \o round.events
    /\ count' = count + round.skipped
    /\ log' = IF round.kind = "next" /\ round.events = <<>>
                 /\ round.skipped = 0
              THEN Append(log, [level |-> "error", about |-> "record",
                                name |-> <<>>, n |-> 0])
              ELSE log
    /\ UNCHANGED <<scenario, plugin, rule, data, is_json_path, res, mappings,
                   data_type, out, doc, load, gen, event, config, raw_data>>

SolarWindsTransformRound ==
    /\ scenario = "transform"
    /\ plugin = "solarwinds"
    /\ pc = "loop"
    /\ pos < Len(raw_data)
    /\ TakeRound(SolarWindsRound(config, raw_data[pos + 1], data_type))

ChronicleTransformRound ==
    /\ scenario = "transform"
    /\ plugin = "chronicle"
    /\ pc = "loop"
    /\ pos < Len(raw_data)
    /\ TakeRound(ChronicleRound(config, raw_data[pos + 1]))

\* return transformed_data, in the SolarWinds plugin after the debug message
\* with count
TransformReturn ==
    /\ scenario = "transform"
    /\ pc = "loop"
    /\ pos = Len(raw_data)
    /\ pc' = "done"
    /\ log' = IF plugin = "solarwinds"
              THEN Append(log, [level |-> "debug", about |-> "count",
                                name |-> <<>>, n |-> count])
              ELSE log
    /\ UNCHANGED <<scenario, plugin, rule, data, is_json_path, res, mappings,
                   data_type, out, doc, load, gen, event, config, raw_data,
                   pos, transformed_data, count>>

NextTransform ==
    \/ SolarWindsTransformRound
    \/ ChronicleTransformRound
    \/ TransformReturn

SpecTransform == InitTransform /\ [][NextTransform]_vars

-----------------------------------------------------------------------------
(* Properties of transform *)

\* a round of the loop is taken on the record raw_data[pos + 1]
RoundTaken == scenario = "transform" /\ pos' = pos + 1

\* the round appended an event for its record
EmittedNow == Len(transformed_data') = Len(transformed_data) + 1

\* the round counted its record as skipped
CountedNow == count' = count + 1

HeaderOut(d) ==
    IF plugin = "solarwinds"
    THEN SolarWinds_get_headers(config.header, d, data_type)
    ELSE Chronicle_get_headers(config.header, d)

ExtensionOut(d) ==
    IF plugin = "solarwinds"
    THEN SolarWinds_get_extensions(config.extension, d)
    ELSE Chronicle_get_extensions(config.extension, d)

\* both resolutions of the record returned
ResolutionReturns(d) ==
    HeaderOut(d).kind = "return" /\ ExtensionOut(d).kind = "return"

\* the rule takes its value from the record: its mapping_field is a key of
\* the record with a value other than an empty one
TakesFromRecord(r, d) ==
    /\ r.has_mapping_field
    /\ r.mapping_field \in DOMAIN d
    /\ (Truthy(d[r.mapping_field]) \/ IsInstanceInt(d[r.mapping_field]))

\* the rule takes its default: it has one and the record holds no key its
\* mapping_field names
TakesDefault(r, d) ==
    /\ r.has_default_value
    /\ r.has_mapping_field =>
           \A i \in 1..Len(Split(r.mapping_field, "-")) :
               Split(r.mapping_field, "-")[i] \notin DOMAIN d

SomeMapped(section, d) ==
    \E i \in 1..Len(section) : TakesFromRecord(section[i].rule, d)

AllDefault(section, d) ==
    \A i \in 1..Len(section) : TakesDefault(section[i].rule, d)

\* C12: transform never emits a record whose resolved header and extension
\* values all came from defaults, and emits every record that has at least
\* one value taken from the record (and whose resolution and assembly do
\* not fail).
C12_AsStated ==
    [][RoundTaken =>
          LET d == raw_data[pos + 1]
          IN  /\ ( /\ ResolutionReturns(d)
                   /\ AllDefault(config.header, d)
                   /\ AllDefault(config.extension, d) ) => ~EmittedNow
              /\ ( /\ ResolutionReturns(d)
                   /\ ExtensionOut(d).fields # <<>>
                   /\ ( SomeMapped(config.header, d)
                        \/ SomeMapped(config.extension, d) ) ) => EmittedNow
      ]_vars

\* the SolarWinds round dropped its record for want of a mapped value
DroppedUnmapped(d) ==
    /\ DOMAIN d # {}
    /\ ResolutionReturns(d)
    /\ CountedNow
    /\ ~EmittedNow

\* C13: in SolarWinds a record with a mapped header and only default-valued
\* extensions is kept and emitted, so is a record with only default-valued
\* headers and a mapped extension, and a resolved record is dropped exactly
\* when the header flag and the extension flag are both false.
C13_FlagsCombinedWithOr ==
    [][RoundTaken /\ plugin = "solarwinds" =>
          LET d == raw_data[pos + 1]
          IN  /\ ( /\ ResolutionReturns(d)
                   /\ SomeMapped(config.header, d)
                   /\ config.extension # <<>>
                   /\ AllDefault(config.extension, d) )
                 => (EmittedNow /\ ~CountedNow)
              /\ ( /\ ResolutionReturns(d)
                   /\ config.header # <<>>
                   /\ AllDefault(config.header, d)
                   /\ SomeMapped(config.extension, d) )
                 => (EmittedNow /\ ~CountedNow)
              /\ (DOMAIN d # {} /\ ResolutionReturns(d))
                 => ( (CountedNow /\ ~EmittedNow)
                      <=> (~HeaderOut(d).mapped /\ ~ExtensionOut(d).mapped) )
      ]_vars

\* a SolarWinds batch whose first record has a mapped header and only
\* default-valued extensions, after the round that emitted it
C13_Witness ==
    /\ scenario = "transform"
    /\ plugin = "solarwinds"
    /\ pos = 1
    /\ ResolutionReturns(raw_data[1])
    /\ SomeMapped(config.header, raw_data[1])
    /\ config.extension # <<>>
    /\ AllDefault(config.extension, raw_data[1])
    /\ ~ExtensionOut(raw_data[1]).mapped
    /\ Len(transformed_data) = 1
    /\ count = 0

\* the record fails: a resolution raises, or the assembly does
Fails(d) ==
    \/ HeaderOut(d).kind # "return"
    \/ ExtensionOut(d).kind # "return"
    \/ ExtensionOut(d).fields = <<>>

\* the record is skipped by SolarWinds without failing: it is empty or
\* holds no mapped value
Skipped(d) ==
    /\ plugin = "solarwinds"
    /\ \/ DOMAIN d = {}
       \/ ~Fails(d) /\ ~HeaderOut(d).mapped /\ ~ExtensionOut(d).mapped

\* the event of a record, computed from that record alone
EventOf(d) ==
    [header |-> HeaderOut(d).fields, extension |-> ExtensionOut(d).fields]

\* the events of the first k records that neither fail nor are skipped,
\* in input order
RECURSIVE ExpectedEvents(_)
ExpectedEvents(k) ==
    IF k = 0 THEN <<>>
    ELSE IF Skipped(raw_data[k]) \/ Fails(raw_data[k])
         THEN ExpectedEvents(k - 1)
         ELSE Append(ExpectedEvents(k - 1), EventOf(raw_data[k]))

\* C14: a record whose header resolution, extension resolution or assembly
\* fails adds nothing to the output and never ends the loop: after any
\* number of rounds the output is the events of the records handled so far
\* that did not fail, in input order, and the loop ends only past the last
\* record.
C14_FailuresSkipped ==
    scenario = "transform" =>
        /\ pc \in {"loop", "done"}
        /\ transformed_data = ExpectedEvents(pos)
        /\ pc = "done" => pos = Len(raw_data)
        /\ (pc = "loop" /\ pos < Len(raw_data)) => ENABLED NextTransform

\* a finished batch whose first record failed in a resolution and whose
\* second record was transformed
C14_Witness ==
    /\ scenario = "transform"
    /\ pc = "done"
    /\ Len(raw_data) = 2
    /\ DOMAIN raw_data[1] # {}
    /\ ~ResolutionReturns(raw_data[1])
    /\ ~Fails(raw_data[2])
    /\ transformed_data = <<EventOf(raw_data[2])>>

-----------------------------------------------------------------------------
(* Construction of the CEF generator from a mapping, then one call *)

\* mapping["taxonomy"] as the list of its rules: at most MaxRules rules of
\* the alerts data type, each in the header or the extension section of a
\* subtype, and possibly a field name of the json data type, which has
\* field lists in the place of rules. A dict holds a key once and the
\* loops visit a section in one go
Taxonomies ==
    LET Rule(st, section, field, kind) ==
            [data_type |-> "alerts", subtype |-> st, section |-> section,
             field |-> field, transformation |-> kind]
        Rules ==
            {Rule(st, "extension", field, kind) :
                st \in {"dlp", "audit"}, field \in {<<"a">>, <<"b">>},
                kind \in {"", "String", "Integer", "Epoch", "Foo"}}
            \cup {Rule("dlp", "header", <<"N", "a", "m", "e">>, kind) :
                     kind \in {"String", "Foo"}}
        JsonField ==
            [data_type |-> "json", subtype |-> "dlp", section |-> "",
             field |-> <<"a">>, transformation |-> ""]
        Place(e) == <<e.data_type, e.subtype, e.section>>
        Lists ==
            {q \in UNION {[1..k -> Rules] : k \in 1..MaxRules} :
                /\ \A i, j \in 1..Len(q) :
                       (i # j /\ Place(q[i]) = Place(q[j]))
                           => q[i].field # q[j].field
                /\ \A i, j, k \in 1..Len(q) :
                       (i < j /\ j < k /\ Place(q[i]) = Place(q[k]))
                           => Place(q[j]) = Place(q[i])}
    IN  Lists \cup {<<JsonField>> \o q : q \in Lists}

\* a mapping, and the arguments get_cef_event is called with once the
\* generator is built: the extensions hold a value for every extension rule
\* of the subtype being processed
InitGenerator ==
    /\ scenario = "cef"
    /\ pc = "new"
    /\ plugin = ""
    /\ rule = NoRule
    /\ is_json_path = FALSE
    /\ res = NoResult
    /\ mappings \in Taxonomies
    /\ data = EmptyRecord
    /\ data_type = ""
    /\ out = NoOut
    /\ doc = <<>>
    /\ load = "none"
    /\ \E st \in {"dlp", "audit"} :
       \E values \in [1..MaxRules ->
                         {StrV(<<"1", "2">>), StrV(<<"x">>), IntV(5)}] :
          LET named == SelectSeq(mappings,
                           LAMBDA e : /\ e.data_type = "alerts"
                                      /\ e.subtype = st
                                      /\ e.section = "extension")
          IN  gen = [kind |-> "new",
                     delimiter |-> <<"|">>,
                     cef_version |-> <<"0">>,
                     log_source_identifier |-> <<"c", "e">>,
                     transformation |-> <<>>,
                     raw_data |-> [date |-> NoneV, time |-> NoneV],
                     headers |-> <<[key |-> "Name", value |-> StrV(<<"x">>)]>>,
                     extensions |-> [i \in 1..Len(named) |->
                                        [key |-> named[i].field,
                                         value |-> values[i]]],
                     data_type |-> "alerts",
                     subtype |-> st]
    /\ event = NoResult
    /\ config = NoConfig
    /\ raw_data = <<>>
    /\ pos = 0
    /\ transformed_data = <<>>
    /\ count = 0
    /\ log = <<>>

\* CEFGenerator.__init__: self.valid_extensions and
\* self.extension_converters are built from the mapping, or the KeyError of
\* an unknown kind is logged and leaves the constructor
NewCEFGenerator ==
    /\ scenario = "cef"
    /\ pc = "new"
    /\ LET built == field_converters(mappings, 1, <<>>)
       IN  IF built.kind = "return"
           THEN /\ pc' = "ready"
                /\ gen' = [gen EXCEPT !.kind = "call",
                                      !.transformation = built.value]
                /\ log' = log
           ELSE /\ pc' = "rejected"
                /\ gen' = [gen EXCEPT !.kind = built.kind]
                /\ log' = Append(log, [level |-> "error",
                                       about |-> "mapping",
                                       name |-> <<>>, n |-> 0])
    /\ UNCHANGED <<scenario, plugin, rule, data, is_json_path, res, mappings,
                   data_type, out, doc, load, event, config, raw_data, pos,
                   transformed_data, count>>

NextGenerator ==
    \/ NewCEFGenerator
    \/ GetCefEvent

SpecGenerator == InitGenerator /\ [][NextGenerator]_vars

-----------------------------------------------------------------------------
(* Properties of the construction of the generator *)

\* the mapping names, in a header or an extension rule, a kind the
\* converters have no entry for
NamesUnknownKind ==
    \E i \in 1..Len(mappings) :
        /\ mappings[i].section \in {"header", "extension"}
        /\ mappings[i].transformation \notin {"", "String", "Integer", "Epoch"}

\* C21: a mapping that names an unknown transformation kind in a header or
\* an extension rule is rejected by the constructor of the generator, which
\* logs and raises: get_cef_event is never called with it, so that no
\* record is processed and no field of a record fails for that kind.
C21_UnknownKindRejected ==
    (scenario = "cef" /\ pc # "new" /\ NamesUnknownKind) =>
        /\ pc = "rejected"
        /\ gen.kind = "KeyError"
        /\ event = NoResult
        /\ \A j \in 1..Len(log) : log[j].about = "mapping"
        /\ log # <<>>

\* the constructor raised on a mapping whose header rule names the unknown
\* kind, every extension rule being of a known kind
C21_Witness ==
    /\ scenario = "cef"
    /\ pc = "rejected"
    /\ \E i \in 1..Len(mappings) :
           /\ mappings[i].section = "header"
           /\ mappings[i].transformation = "Foo"
    /\ \A i \in 1..Len(mappings) :
           mappings[i].section = "extension"
               => mappings[i].transformation \in TransformationNames
    /\ event = NoResult

-----------------------------------------------------------------------------
(* Properties of the batch report and of the diagnostics *)

\* C22: when the transform of the SolarWinds plugin returns, the count it
\* reported and the number of emitted events add up to the number of input
\* records.
C22_AsStated ==
    (scenario = "transform" /\ plugin = "solarwinds" /\ pc = "done") =>
        /\ count + Len(transformed_data) = Len(raw_data)
        /\ log[Len(log)] = [level |-> "debug", about |-> "count",
                            name |-> <<>>, n |-> count]

\* the number of FieldNotFoundError raised while the fields of the first k
\* records were resolved
RECURSIVE FieldsNotFound(_)
FieldsNotFound(k) ==
    IF k = 0 THEN 0
    ELSE FieldsNotFound(k - 1)
         + (IF DOMAIN raw_data[k] = {} /\ plugin = "solarwinds" THEN 0
            ELSE Len(HeaderOut(raw_data[k]).missing)
                 + (IF HeaderOut(raw_data[k]).kind = "return"
                    THEN Len(ExtensionOut(raw_data[k]).missing)
                    ELSE 0))

\* C23: a FieldNotFoundError raised while a header or an extension field
\* is resolved leaves a trace in the diagnostics: when transform returns
\* after such an error, an error was logged or the reported count is not
\* zero.
C23_AsStated ==
    (scenario = "transform" /\ pc = "done" /\ FieldsNotFound(pos) > 0) =>
        \E j \in 1..Len(log) :
            \/ log[j].level = "error"
            \/ log[j].about = "count" /\ log[j].n > 0

-----------------------------------------------------------------------------
(* Properties of get_cef_event: failing fields, rule sets, webtx records *)

\* C24: when the conversion or the sanitization of an extension fails, that
\* field is not in the extension string, the failure is logged for that
\* field, every extension that converts and sanitizes is in the extension
\* string, and the event is emitted.
C24_AsStated ==
    Called =>
        \A i \in 1..Len(event.steps) :
            ~event.steps[i].stored =>
                /\ Emitted
                /\ ~HasKey(event.extension_strs, event.steps[i].name)
                /\ \E j \in 1..Len(log) :
                       /\ log[j].level = "error"
                       /\ log[j].about = "extension"
                       /\ log[j].name = event.steps[i].name
                /\ \A k \in StoredSteps :
                       HasKey(event.extension_strs, event.steps[k].name)

\* the kind the rule set of the subtype being processed declares for the
\* extension field
DeclaredKind(name) ==
    LET e == CHOOSE e \in {mappings[i] : i \in 1..Len(mappings)} :
                 /\ e.data_type = gen.data_type
                 /\ e.subtype = gen.subtype
                 /\ e.section = "extension"
                 /\ e.field = name
    IN  IF e.transformation = "" THEN "String" ELSE e.transformation

\* C25: every extension of the call is converted by the converter, and
\* sanitized by the sanitizer, of the kind its own rule set declares.
C25_AsStated ==
    (scenario = "cef" /\ pc = "done") =>
        \A i \in 1..Len(gen.extensions) :
            LET name == gen.extensions[i].key
                declared == [transformation |-> (name :> DeclaredKind(name))]
                c == extension_converters(declared, name,
                                          gen.extensions[i].value)
            IN  /\ event.steps[i].converted = c
                /\ c.kind = "return" =>
                       event.steps[i].sanitized
                           = valid_extensions(declared, name, c.value)

\* C26: the event of a webtx record with a date and a time is emitted with
\* their timestamp in rt; the event of a webtx record that lacks one of
\* them, or holds an empty one, is emitted without rt; no rt is added to the
\* event of another data type.
C26_AsStated ==
    Called =>
        /\ (gen.data_type = "webtx"
            /\ Truthy(gen.raw_data.date) /\ Truthy(gen.raw_data.time))
           => /\ Emitted
              /\ HasKey(event.extension_strs, <<"r", "t">>)
              /\ Lookup(event.extension_strs, <<"r", "t">>).type = "str"
              /\ IsDigits(Lookup(event.extension_strs, <<"r", "t">>).s)
        /\ (gen.data_type = "webtx"
            /\ ~(Truthy(gen.raw_data.date) /\ Truthy(gen.raw_data.time)))
           => Emitted /\ ~HasKey(event.extension_strs, <<"r", "t">>)
        /\ gen.data_type # "webtx"
           => ~HasKey(event.extension_strs, <<"r", "t">>)

-----------------------------------------------------------------------------
(* Properties of the resolution modes and of the mapped flag *)

\* the outcome of entry i resolved in path mode when its is_json_path is
\* true and in direct mode otherwise
FlagResolution(i) ==
    LET path == /\ scenario = "extensions"
                /\ mappings[i].rule.has_is_json_path
                /\ mappings[i].rule.is_json_path
    IN  IF plugin = "chronicle"
        THEN Chronicle_get_field_value_from_data(mappings[i].rule, data, path)
        ELSE SolarWinds_get_field_value_from_data(mappings[i].rule, data, path)

\* C27: get_extensions resolves a rule in path mode exactly when its
\* is_json_path is true, and get_headers resolves every rule in direct
\* mode: a field is in the result exactly when that resolution returns.
C27_AsStated ==
    (Collected /\ out.kind = "return") =>
        \A i \in 1..Len(mappings) :
            /\ FlagResolution(i).kind = "return"
                   => mappings[i].key \in OutKeys
            /\ FlagResolution(i).kind = "FieldNotFoundError"
                   => mappings[i].key \notin OutKeys

\* the path of the rule matches in the record
PathMatches(r, d) ==
    /\ r.has_mapping_field /\ r.mapping_field # <<>>
    /\ jsonpath(d, r.mapping_field).found

\* the text the rule takes from the record in path mode is not empty
PathNonEmpty(r, d) ==
    /\ PathMatches(r, d)
    /\ Join(StrAll(jsonpath(d, r.mapping_field).vals), <<",">>) # <<>>

\* C28 as stated: the flag of a section is true exactly when one of its
\* rules took from the record a value that is truthy or an integer, in
\* either mode, and a record without such a value is counted and dropped.
C28_AsStated ==
    [][(RoundTaken /\ plugin = "solarwinds" /\ DOMAIN raw_data[pos + 1] # {}
        /\ ResolutionReturns(raw_data[pos + 1])) =>
          LET d == raw_data[pos + 1]
              header == \E i \in 1..Len(config.header) :
                            TakesFromRecord(config.header[i].rule, d)
              extension ==
                  \E i \in 1..Len(config.extension) :
                      IF config.extension[i].rule.has_is_json_path
                      THEN PathNonEmpty(config.extension[i].rule, d)
                      ELSE TakesFromRecord(config.extension[i].rule, d)
          IN  /\ HeaderOut(d).mapped <=> header
              /\ ExtensionOut(d).mapped <=> extension
              /\ (~header /\ ~extension) => (CountedNow /\ ~EmittedNow)
      ]_vars

\* C28: in direct mode the flag is true exactly when the value taken from
\* the record is truthy or an integer, in path mode whenever the path
\* matches; a record none of whose rules has a true flag is counted and
\* dropped, so a record whose only values are empty ones taken in direct
\* mode is dropped.
C28_MappedFlag ==
    [][(RoundTaken /\ plugin = "solarwinds" /\ DOMAIN raw_data[pos + 1] # {}
        /\ ResolutionReturns(raw_data[pos + 1])) =>
          LET d == raw_data[pos + 1]
              header == \E i \in 1..Len(config.header) :
                            TakesFromRecord(config.header[i].rule, d)
              extension ==
                  \E i \in 1..Len(config.extension) :
                      IF config.extension[i].rule.has_is_json_path
                      THEN PathMatches(config.extension[i].rule, d)
                      ELSE TakesFromRecord(config.extension[i].rule, d)
          IN  /\ HeaderOut(d).mapped <=> header
              /\ ExtensionOut(d).mapped <=> extension
              /\ (~header /\ ~extension) => (CountedNow /\ ~EmittedNow)
              /\ \A i \in 1..Len(config.extension) :
                     LET r == config.extension[i].rule
                     IN  ( /\ ~r.has_is_json_path
                           /\ r.has_mapping_field
                           /\ r.mapping_field \in DOMAIN d
                           /\ ~TakesFromRecord(r, d) )
                         => \A k \in 1..Len(ExtensionOut(d).fields) :
                                ExtensionOut(d).fields[k].key
                                    = config.extension[i].key
                                => ExtensionOut(d).fields[k].value
                                       = StrV(NullStr)
      ]_vars

\* a SolarWinds batch whose first record holds an empty value only: it was
\* counted and dropped under a direct rule
C28_Witness ==
    /\ scenario = "transform"
    /\ plugin = "solarwinds"
    /\ pos = 1
    /\ raw_data[1] = (<<"a">> :> StrV(<<>>))
    /\ config.header = <<>>
    /\ Len(config.extension) = 1
    /\ config.extension[1].rule.mapping_field = <<"a">>
    /\ ~config.extension[1].rule.has_default_value
    /\ transformed_data = <<>>
    /\ count = 1

\* the components of a composite mapping_field that are keys
ComponentKeys == {Components[i] : i \in 1..Len(Components)} \ {NULLStr}

\* C29: in the direct mode of the Chronicle resolver a mapping_field with a
\* hyphen is resolved from the record entries of its trimmed components
\* alone: the outcome is that of the record cut down to those entries,
\* whether or not the whole mapping_field is a key of the record.
C29_CompositeAlwaysSplit ==
    (Resolved /\ plugin = "chronicle" /\ ~is_json_path /\ MappingPresent
     /\ IsComposite) =>
        /\ res = Chronicle_get_field_value_from_data(
                     rule,
                     [k \in DOMAIN data \cap ComponentKeys |-> data[k]],
                     FALSE)
        /\ res = ChronicleComposite(rule, data,
                                    Split(rule.mapping_field, "-"), 1, <<>>)

\* the whole mapping_field is a key of the record with a value of its own,
\* and the resolver returned the default for want of a component
C29_Witness ==
    /\ Resolved /\ plugin = "chronicle" /\ ~is_json_path
    /\ MappingPresent /\ IsComposite
    /\ rule.mapping_field \in DOMAIN data
    /\ data[rule.mapping_field] = StrV(<<"x">>)
    /\ rule.has_default_value
    /\ Returns(StrV(rule.default_value))
    /\ rule.default_value # <<"x">>

\* the outcome of the other plugin's resolver on the same arguments
OtherResolver ==
    IF plugin = "chronicle"
    THEN SolarWinds_get_field_value_from_data(rule, data, is_json_path)
    ELSE Chronicle_get_field_value_from_data(rule, data, is_json_path)

\* C30: for every rule whose mapping_field has no hyphen and whose
\* transformation is not Time Stamp, every record and either mode, the two
\* resolvers end alike: both return the same value or both raise the same
\* exception, which is FieldNotFoundError for every rule that holds a
\* mapping_field or a default_value.
C30_ResolversAgree ==
    (Resolved /\ ~IsComposite /\ rule.transformation # "Time Stamp") =>
        LET other == OtherResolver
            value == IF plugin = "chronicle" THEN other.value[1]
                     ELSE other.value
        IN  /\ other.kind = res.kind
            /\ res.kind = "return" => ReturnedValue = value
            /\ res.kind # "return" => other = res
            /\ (MappingPresent \/ rule.has_default_value)
                   => res.kind \in {"return", "FieldNotFoundError"}

\* the SolarWinds resolver joined the two values a wildcard path matched,
\* as the Chronicle resolver does
C30_Witness ==
    /\ Resolved /\ plugin = "solarwinds" /\ is_json_path
    /\ rule.mapping_field = PathWildcard
    /\ Cardinality(DOMAIN data) = 2
    /\ res.kind = "return"
    /\ OtherResolver = Return(res.value[1])

====
